---------------------------- MODULE Spec2Model ----------------------------
(***************************************************************************)
(* A model of the parallel tar archiver of src/common/mfu_flist_archive.c: *)
(* the layout planner, the index sidecar, the header phase, the            *)
(* work-stealing copy phase and the trailer of                             *)
(* mfu_flist_archive_create_libcircle, followed by                         *)
(* mfu_flist_archive_extract on the archive that was produced.             *)
(*                                                                         *)
(* A file is a sequence of runs.  A run [n, k, e, o] stands for n bytes of *)
(* kind k: "hole" (never written since the file was extended, reads as     *)
(* zero), "old" (content left by an earlier program), "zero" (zero bytes   *)
(* that were written), "hdr" (bytes o .. o+n-1 of the tar header of entry  *)
(* e) and "data" (bytes o .. o+n-1 of the source file of entry e).         *)
(***************************************************************************)
EXTENDS Integers, Sequences, FiniteSets, TLC

(***************************************************************************)
(* Bounds of the model.                                                    *)
(***************************************************************************)
MaxEntries == 2

MaxRanks == 2

MaxPartEntries == 7

MaxPartRanks == 4
\* the longest file name given to the work-item codec
MaxNameLen == 3
\* CIRCLE_MAX_STRING_LEN, the size of a message of libcircle, scaled down
MaxStringLen == 19

\* the largest number of source paths given to mfu_param_path_check_archive
MaxParams == 2

(***************************************************************************)
(* Program constants.                                                      *)
(***************************************************************************)
BlockSize == 512

TrailerSize == 1024

IdxWord == 8

MFU_SUCCESS == "MFU_SUCCESS"

MFU_FAILURE == "MFU_FAILURE"

(***************************************************************************)
(* Inputs.  An entry of the file list has a type, a size as the walk       *)
(* recorded it and the size of the header the codec produces for it.       *)
(***************************************************************************)
EntryKinds ==
    { [type |-> "DIR",   size |-> 4096, hsize |-> 512],
      [type |-> "LINK",  size |-> 6,    hsize |-> 1536],
      [type |-> "OTHER", size |-> 0,    hsize |-> 512],
      [type |-> "FILE",  size |-> 0,    hsize |-> 512],
      [type |-> "FILE",  size |-> 513,  hsize |-> 1536],
      [type |-> "FILE",  size |-> 1030, hsize |-> 512] }

ChunkSizes == {515, 600}

\* the length of the file that an earlier run left at the archive path: it
\* is longer than some of the archives below and shorter than others.  A
\* path without a file gives, after mfu_open with O_CREAT, a file of length
\* 0, which is what ftruncate(fd, 0) makes of this one.
OldArchiveLens == {3000}

Ranks == 0 .. (MaxRanks - 1)

NoFault == [k |-> "none", g |-> 0]

(***************************************************************************)
(* Files as sequences of runs.                                             *)
(***************************************************************************)
Run(n, k, e, o) == [n |-> n, k |-> k, e |-> e, o |-> o]

Hole(n) == Run(n, "hole", 0, 0)

Zeros(n) == Run(n, "zero", 0, 0)

Positional(k) == k \in {"hdr", "data"}

Mergeable(a, b) ==
    /\ a.k = b.k
    /\ a.e = b.e
    /\ Positional(a.k) => b.o = a.o + a.n

RECURSIVE RNorm(_)
RNorm(A) ==
    IF A = <<>> THEN <<>>
    ELSE IF A[1].n = 0 THEN RNorm(Tail(A))
    ELSE LET rest == RNorm(Tail(A))
         IN  IF rest # <<>> /\ Mergeable(A[1], rest[1])
             THEN <<[A[1] EXCEPT !.n = A[1].n + rest[1].n]>> \o Tail(rest)
             ELSE <<A[1]>> \o rest

RECURSIVE RLen(_)
RLen(A) == IF A = <<>> THEN 0 ELSE A[1].n + RLen(Tail(A))

RECURSIVE RTake(_, _)
RTake(A, n) ==
    IF A = <<>> \/ n <= 0 THEN <<>>
    ELSE IF A[1].n <= n THEN <<A[1]>> \o RTake(Tail(A), n - A[1].n)
    ELSE <<[A[1] EXCEPT !.n = n]>>

RECURSIVE RDrop(_, _)
RDrop(A, n) ==
    IF A = <<>> THEN <<>>
    ELSE IF n <= 0 THEN A
    ELSE IF A[1].n <= n THEN RDrop(Tail(A), n - A[1].n)
    ELSE <<[A[1] EXCEPT !.n = @ - n,
                        !.o = IF Positional(A[1].k) THEN @ + n ELSE 0]>>
         \o Tail(A)

\* the n bytes of file A that start at byte off (fewer at the end of A)
RSlice(A, off, n) == RNorm(RTake(RDrop(A, off), n))

\* lseek(fd, off, SEEK_SET) followed by write(fd, ...) of the bytes W
WriteAt(A, off, W) ==
    LET B == IF off > RLen(A) THEN A \o <<Hole(off - RLen(A))>> ELSE A
    IN  IF RLen(W) = 0 THEN A
        ELSE RNorm(RTake(B, off) \o W \o RDrop(B, off + RLen(W)))

\* ftruncate(fd, n)
NoShrinkTruncate(A, n) ==
    IF n <= RLen(A) THEN A ELSE RNorm(A \o <<Hole(n - RLen(A))>>)

Truncate(A, n) ==
    IF n <= RLen(A) THEN RNorm(RTake(A, n)) ELSE RNorm(A \o <<Hole(n - RLen(A))>>)

\* a run of bytes that reads as zero
ReadsZero(A) == \A i \in 1 .. Len(A) : A[i].k \in {"hole", "zero"}

RECURSIVE SeqSum(_)
SeqSum(s) == IF s = <<>> THEN 0 ELSE s[1] + SeqSum(Tail(s))

Min(a, b) == IF a <= b THEN a ELSE b


(***************************************************************************)
(* State.  flist, owner, nranks, chunk_size and fault are the inputs of a   *)
(* run; the rest is the state of the ranks, of the archive file, of the    *)
(* index file and of the directory the archive is extracted into.          *)
(***************************************************************************)
VARIABLES
    flist,             \* the sorted file list, in global order
    owner,             \* owner[g]: the rank whose shard holds entry g
    nranks,            \* number of ranks of the current run
    chunk_size,        \* opts->chunk_size
    fault,             \* the error injected in this run, NoFault for none
    pc,                \* pc[r]: where rank r is
    DTAR_header_sizes, \* per rank: header size of each local entry
    DTAR_offsets,      \* per rank: archive offset of each local entry
    fsizes,            \* per rank: slot size of each local entry
    local_bytes,       \* per rank: "offset" after the planning loop
    data_bytes,        \* per rank: padded payload bytes of its regular files
    archive_size,      \* sum of all slot sizes (MPI_Allreduce)
    DTAR_total_bytes,
    DTAR_total_items,
    archive,           \* the archive file
    idxfile,           \* the index file <archive>.idx
    idx_off,           \* per rank: "offset" of write_entry_index
    idx_ok,            \* per rank: "success" of write_entry_index before alltrue
    idx_result,        \* per rank: value returned by write_entry_index, -1 before
    idx_args,          \* history: the arrays given to write_entry_index, in rank order
    queue,             \* libcircle's work items, not yet dequeued
    copied,            \* history: what each processed work item wrote: payload in
                       \* [lo, data_hi), then zero bytes up to hi; last: the
                       \* item took itself for the last chunk of its file
    old_size,          \* history: length of the file that rank 0 truncated
    enqueued,          \* history: every call of handle->enqueue, per rank in order
    create_rc,         \* per rank: value returned by mfu_flist_archive_create
    run,               \* "create" or "extract"
    compressed,        \* the archive was compressed after it was created
    have_index,        \* extract: read_entry_index succeeded
    have_offsets,      \* extract: index_entries succeeded
    entries,           \* extract: number of entries of the archive
    offsets,           \* extract: archive offset of each entry
    entry_start,       \* per rank: first entry of its range
    entry_count,       \* per rank: number of entries of its range
    xflist,            \* per rank: entries of its metadata list, in order
    flist_rc,          \* per rank: value returned by the metadata phase
    files_rc,          \* per rank: value returned by the extraction phase
    disk,              \* per entry: what extraction made of it
    mkdirs,            \* entries whose directory mfu_flist_mkdir created
    extract_rc,        \* per rank: value returned by mfu_flist_archive_extract
    held,              \* per rank: archive descriptors open, reader objects alive
    op_in,             \* a work item given to DTAR_encode_operation
    opstr,             \* the message DTAR_encode_operation made of it
    op_out,            \* what DTAR_decode_operation made of the message
    access,            \* what mfu_access answers on each rank: for every source
                       \* path (R_OK) and for the parent of the destination (W_OK)
    destparam,         \* the destination: its path, and whether stat found it
    valid,             \* per rank: *valid of mfu_param_path_check_archive, -1 before
    dest_path          \* per rank: opts->dest_path, "NULL" while it is not set

codecvars == <<op_in, opstr, op_out>>

checkvars == <<access, destparam, valid, dest_path>>

cfgvars == <<flist, owner, nranks, chunk_size, fault, codecvars, checkvars>>

xvars == <<have_index, have_offsets, entries, offsets, entry_start, entry_count,
           xflist, flist_rc, files_rc, disk, mkdirs, extract_rc>>

xstate == <<run, compressed, xvars>>

planvars == <<DTAR_header_sizes, DTAR_offsets, fsizes, local_bytes, data_bytes,
              archive_size, DTAR_total_bytes, DTAR_total_items>>

history == <<copied, old_size, enqueued>>

idxvars == <<idxfile, idx_off, idx_ok, idx_result, idx_args>>

NEntries == Len(flist)

\* rank r opens (dfd > 0) or closes (dfd < 0) descriptors of the archive and
\* creates (drd > 0) or frees (drd < 0) archive reader objects
Hold(h, r, dfd, drd) ==
    [h EXCEPT ![r] = [fds |-> @.fds + dfd, readers |-> @.readers + drd]]

Entries == 1 .. NEntries

CRanks == 0 .. (nranks - 1)

\* the global indices of the entries of rank r's shard, in local order
Shard(r) ==
    LET below == Cardinality({g \in Entries : owner[g] < r})
        mine  == Cardinality({g \in Entries : owner[g] = r})
    IN  [i \in 1 .. mine |-> below + i]

Supported(t) == t \in {"FILE", "DIR", "LINK"}

(***************************************************************************)
(* encode_header: the codec is deterministic, so probing an entry twice    *)
(* gives the same size.  "probe_meta" is a failure that still produces the *)
(* header (readlink or read_disk failed); "probe_nospace" one that         *)
(* produces nothing (the header did not fit the buffer).                   *)
(***************************************************************************)
EncodeUsed(g) ==
    IF fault.k = "probe_nospace" /\ fault.g = g THEN 0 ELSE flist[g].hsize

EncodeRc(g) ==
    IF fault.k \in {"probe_meta", "probe_nospace"} /\ fault.g = g
    THEN MFU_FAILURE ELSE MFU_SUCCESS

(***************************************************************************)
(* The layout planner.                                                     *)
(***************************************************************************)
\* round file size up to nearest integer number of 512 bytes
PaddedSizeNextBlock(fsize) == ((fsize \div BlockSize) + 1) * BlockSize

PaddedSize(fsize) ==
    LET p == (fsize \div BlockSize) * BlockSize
    IN  IF p < fsize THEN p + BlockSize ELSE p

\* DTAR_header_sizes[idx] of the planning loop
PlanHeaderSize(g) ==
    IF Supported(flist[g].type) THEN EncodeUsed(g) ELSE 0

\* fsizes[idx] of the planning loop
SlotSize(g) ==
    CASE flist[g].type \in {"DIR", "LINK"} -> EncodeUsed(g)
      [] flist[g].type = "FILE" -> EncodeUsed(g) + PaddedSize(flist[g].size)
      [] OTHER -> 0

\* data_bytes of the planning loop
PlanDataBytes(g) ==
    IF flist[g].type = "FILE" THEN PaddedSize(flist[g].size) ELSE 0

\* DTAR_offsets before the scan: the running sum of the slot sizes
LocalOffsetsAfterSlot(sizes) ==
    [i \in 1 .. Len(sizes) |-> SeqSum(SubSeq(sizes, 1, i))]

LocalOffsets(sizes) ==
    [i \in 1 .. Len(sizes) |-> SeqSum(SubSeq(sizes, 1, i - 1))]

\* MPI_Scan(MPI_SUM)
ScanInclusive(vals, r) == SeqSum([q \in 1 .. (r + 1) |-> vals[q - 1]])

\* MPI_Allreduce(MPI_SUM) over the ranks R
AllSum(vals, R) == SeqSum([q \in 1 .. Cardinality(R) |-> vals[q - 1]])

\* mfu_open of the archive, line 790, and the planning loop of one rank,
\* lines 812-858
Plan(r) ==
    /\ pc[r] = "plan"
    /\ held' = Hold(held, r, 1, 0)
    /\ LET sh == Shard(r)
           sz == [i \in 1 .. Len(sh) |-> SlotSize(sh[i])]
       IN  /\ DTAR_header_sizes' =
                 [DTAR_header_sizes EXCEPT ![r] = [i \in 1 .. Len(sh) |-> PlanHeaderSize(sh[i])]]
           /\ fsizes' = [fsizes EXCEPT ![r] = sz]
           /\ DTAR_offsets' = [DTAR_offsets EXCEPT ![r] = LocalOffsets(sz)]
           /\ local_bytes' = [local_bytes EXCEPT ![r] = SeqSum(sz)]
           /\ data_bytes' =
                 [data_bytes EXCEPT ![r] = SeqSum([i \in 1 .. Len(sh) |-> PlanDataBytes(sh[i])])]
    /\ pc' = [pc EXCEPT ![r] = "plan_reduce"]
    /\ UNCHANGED <<cfgvars, xstate, archive_size, DTAR_total_bytes, DTAR_total_items,
                   archive, idxvars, queue, history, create_rc>>

\* global offset of one rank after the scan, lines 868-876
NoRankBase(r) == DTAR_offsets[r]

GlobalOffsets(r) ==
    LET base == ScanInclusive(local_bytes, r) - local_bytes[r]
    IN  [i \in 1 .. Len(DTAR_offsets[r]) |-> DTAR_offsets[r][i] + base]

\* the collectives of lines 861-870 and the rewrite of the offsets
PlanReduce ==
    /\ \A r \in CRanks : pc[r] = "plan_reduce"
    /\ DTAR_total_items' = NEntries
    /\ DTAR_total_bytes' = AllSum(data_bytes, CRanks)
    /\ archive_size' = AllSum(local_bytes, CRanks)
    /\ DTAR_offsets' =
          [r \in Ranks |-> IF r \in CRanks THEN GlobalOffsets(r) ELSE DTAR_offsets[r]]
    /\ pc' = [r \in Ranks |-> IF r \in CRanks THEN "idx_scan" ELSE pc[r]]
    /\ UNCHANGED <<held, cfgvars, xstate, DTAR_header_sizes, fsizes, local_bytes, data_bytes,
                   archive, idxvars, queue, history, create_rc>>

(***************************************************************************)
(* The index file.  Its content is a sequence of bytes; an offset is       *)
(* stored as 8 bytes, most significant first.                              *)
(***************************************************************************)
\* byte i (0 the first) of the 8 bytes of v in network order; the values of
\* the model are below 2^31, so the four high bytes are 0
NetByte(v, i) ==
    CASE i = 7 -> v % 256
      [] i = 6 -> (v \div 256) % 256
      [] i = 5 -> (v \div 65536) % 256
      [] i = 4 -> (v \div 16777216) % 256
      [] OTHER -> 0

\* mfu_pack_uint64
Pack64(v) == [i \in 1 .. IdxWord |-> NetByte(v, i - 1)]

\* mfu_unpack_uint64
Unpack64(b) ==
    b[8] + 256 * b[7] + 65536 * b[6] + 16777216 * b[5]

RECURSIVE PackAll(_)
PackAll(vals) ==
    IF vals = <<>> THEN <<>> ELSE Pack64(vals[1]) \o PackAll(Tail(vals))

UnpackAll(bytes, count) ==
    [i \in 1 .. count |-> Unpack64(SubSeq(bytes, IdxWord * (i - 1) + 1, IdxWord * i))]

\* pwrite(fd, buf, len, off) on a sequence of bytes
PWrite(data, off, buf) ==
    LET ext == IF off > Len(data) THEN data \o [i \in 1 .. (off - Len(data)) |-> 0] ELSE data
    IN  IF buf = <<>> THEN data
        ELSE SubSeq(ext, 1, off) \o buf \o SubSeq(ext, off + Len(buf) + 1, Len(ext))

NoIndexFile == [exists |-> FALSE, data |-> <<>>]

\* the partition of the entries of an archive over the ranks that extract
\* it, lines 2063-2076
EntriesPerRank(E, R) == E \div R

EntriesRemainder(E, R) == E - EntriesPerRank(E, R) * R

EntryCount(E, R, rank) ==
    IF rank < EntriesRemainder(E, R)
    THEN EntriesPerRank(E, R) + 1 ELSE EntriesPerRank(E, R)

EntryStartAllAlike(E, R, rank) == rank * EntryCount(E, R, rank)

EntryStart(E, R, rank) ==
    IF rank < EntriesRemainder(E, R)
    THEN rank * EntryCount(E, R, rank)
    ELSE EntriesRemainder(E, R) * (EntryCount(E, R, rank) + 1)
         + (rank - EntriesRemainder(E, R)) * EntryCount(E, R, rank)

\* the arguments of write_entry_index on rank r: create passes its whole
\* offset table (line 879), extract its part of the broadcast one (line 2138)
IdxCount(r) == IF run = "create" THEN Len(DTAR_offsets[r]) ELSE entry_count[r]

IdxOffsetsFromStart(r) ==
    IF run = "create" THEN DTAR_offsets[r] ELSE SubSeq(offsets, 1, entry_count[r])

IdxOffsets(r) ==
    IF run = "create" THEN DTAR_offsets[r]
    ELSE SubSeq(offsets, entry_start[r] + 1, entry_start[r] + entry_count[r])

\* the arrays of the ranks from r on, one after the other
RECURSIVE ConcatArgs(_)
ConcatArgs(r) == IF r \notin CRanks THEN <<>> ELSE IdxOffsets(r) \o ConcatArgs(r + 1)

IdxOffsetInclusive(r) ==
    ScanInclusive([q \in Ranks |-> IF q \in CRanks THEN IdxCount(q) ELSE 0], r)

\* MPI_Scan of the counts and "offset -= count", lines 564-567
IdxOffset(r) ==
    ScanInclusive([q \in Ranks |-> IF q \in CRanks THEN IdxCount(q) ELSE 0], r)
        - IdxCount(r)

IdxScan ==
    /\ \A r \in CRanks : pc[r] = "idx_scan"
    /\ idx_off' = [r \in Ranks |-> IF r \in CRanks THEN IdxOffset(r) ELSE idx_off[r]]
    /\ pc' = [r \in Ranks |->
          IF r \notin CRanks THEN pc[r] ELSE IF r = 0 THEN "idx_create" ELSE "idx_bar"]
    /\ idx_args' = ConcatArgs(0)
    /\ UNCHANGED <<held, cfgvars, xstate, planvars, archive, idxfile, idx_ok, idx_result,
                   queue, history, create_rc>>

\* rank 0 unlinks the index file and creates it empty, lines 572-575; when
\* its open fails the file is gone and rank 0 has no descriptor
IdxCreate ==
    /\ pc[0] = "idx_create"
    /\ idxfile' = IF fault.k = "idxopen" /\ fault.g = 0
                  THEN NoIndexFile ELSE [exists |-> TRUE, data |-> <<>>]
    /\ pc' = [pc EXCEPT ![0] = "idx_bar"]
    /\ UNCHANGED <<held, cfgvars, xstate, planvars, archive, idx_off, idx_ok, idx_result,
                   idx_args, queue, history, create_rc>>

\* MPI_Barrier, line 576
IdxBarrier ==
    /\ \A r \in CRanks : pc[r] = "idx_bar"
    /\ pc' = [r \in Ranks |-> IF r \in CRanks THEN "idx_write" ELSE pc[r]]
    /\ UNCHANGED <<held, cfgvars, xstate, planvars, archive, idxvars, queue, history, create_rc>>

ArrayPackedInPlace(vals) == [i \in 1 .. Len(vals) |-> 256 * vals[i]]

\* the caller's array after the packing loop of lines 582-590, which writes
\* into a buffer of its own
ArrayAfterPack(vals) == vals

IdxSuccessIfOpened(opened, written) == opened

\* "success" of rank r before the collective, lines 592-602
IdxSuccess(opened, written) == opened /\ written

\* the other ranks open the file; every rank packs and writes its offsets,
\* lines 577-602.  Without O_CREAT the open fails when the file is missing.
\* A pwrite that fails has written nothing.
IdxWrite(r) ==
    /\ pc[r] = "idx_write"
    /\ LET opened  == idxfile.exists /\ ~(fault.k = "idxopen" /\ fault.g = r)
           written == opened /\ ~(fault.k = "idxwrite" /\ fault.g = r)
           buf     == PackAll(IdxOffsets(r))
       IN  /\ idxfile' = IF written
                         THEN [idxfile EXCEPT !.data = PWrite(@, idx_off[r] * IdxWord, buf)]
                         ELSE idxfile
           /\ idx_ok' = [idx_ok EXCEPT ![r] = IdxSuccess(opened, written)]
    /\ IF run = "create"
       THEN /\ DTAR_offsets' = [DTAR_offsets EXCEPT ![r] = ArrayAfterPack(@)]
            /\ offsets' = offsets
       ELSE /\ offsets' = [i \in 1 .. Len(offsets) |->
                  IF i > entry_start[r] /\ i <= entry_start[r] + entry_count[r]
                  THEN ArrayAfterPack(IdxOffsets(r))[i - entry_start[r]]
                  ELSE offsets[i]]
            /\ DTAR_offsets' = DTAR_offsets
    /\ pc' = [pc EXCEPT ![r] = "idx_all"]
    /\ UNCHANGED <<held, cfgvars, DTAR_header_sizes, fsizes, local_bytes, data_bytes,
                   archive_size, DTAR_total_bytes, DTAR_total_items, archive, idx_off,
                   idx_result, idx_args, queue, history, create_rc, run, compressed,
                   have_index, have_offsets, entries, entry_start, entry_count,
                   xflist, flist_rc, files_rc, disk, mkdirs, extract_rc>>

\* mfu_alltrue: every rank gets the conjunction of the flags of all ranks
mfu_alltrue(flags) == \A q \in CRanks : flags[q]

\* "return success" of line 613: the bool as the int the function returns
BoolAsInt(b) == IF b THEN 1 ELSE 0

\* mfu_alltrue, line 605; both callers ignore the result and go on, lines
\* 879 and 2138
IdxAllTrue ==
    /\ \A r \in CRanks : pc[r] = "idx_all"
    /\ idx_result' = [r \in Ranks |->
          IF r \in CRanks THEN BoolAsInt(mfu_alltrue(idx_ok)) ELSE idx_result[r]]
    /\ pc' = [r \in Ranks |->
          IF r \notin CRanks THEN pc[r]
          ELSE IF run = "extract" THEN "x_end_bar"
          ELSE IF r = 0 THEN "trunc" ELSE "trunc_bar"]
    /\ UNCHANGED <<held, cfgvars, xstate, planvars, archive, idxfile, idx_off, idx_ok,
                   idx_args, queue, history, create_rc>>

(***************************************************************************)
(* Truncation, header phase, copy phase, trailer.                          *)
(***************************************************************************)
\* rank 0 truncates to 0 and then to the final size, lines 888-898
TruncateArchive ==
    /\ pc[0] = "trunc"
    /\ archive' = Truncate(Truncate(archive, 0), archive_size + 2 * BlockSize)
    /\ old_size' = RLen(archive)
    /\ pc' = [pc EXCEPT ![0] = "trunc_bar"]
    /\ UNCHANGED <<held, cfgvars, xstate, planvars, idxvars, queue, copied, enqueued,
                   create_rc>>

\* MPI_Barrier, line 899
TruncBarrier ==
    /\ \A r \in CRanks : pc[r] = "trunc_bar"
    /\ pc' = [r \in Ranks |-> IF r \in CRanks THEN "headers" ELSE pc[r]]
    /\ UNCHANGED <<held, cfgvars, xstate, planvars, archive, idxvars, queue, history, create_rc>>

\* DTAR_write_header: encode the header again and write it at offset
HeaderBytes(g) ==
    IF fault.k = "hwrite" /\ fault.g = g THEN <<>>
    ELSE RNorm(<<Run(EncodeUsed(g), "hdr", g, 0)>>)

HeaderOneBlockLonger(A, g, offset) ==
    WriteAt(A, offset, <<Run(EncodeUsed(g) + BlockSize, "hdr", g, 0)>>)

DTAR_write_header(A, g, offset) == WriteAt(A, offset, HeaderBytes(g))

HeadersLeftOut(A, r, i) == A

\* the header loop of rank r from local index i on, lines 907-913
RECURSIVE WriteHeadersFrom(_, _, _)
WriteHeadersFrom(A, r, i) ==
    IF i > Len(Shard(r)) THEN A
    ELSE LET g == Shard(r)[i]
         IN  WriteHeadersFrom(
                 IF Supported(flist[g].type)
                 THEN DTAR_write_header(A, g, DTAR_offsets[r][i]) ELSE A,
                 r, i + 1)

WriteHeaders(r) ==
    /\ pc[r] = "headers"
    /\ archive' = WriteHeadersFrom(archive, r, 1)
    /\ pc' = [pc EXCEPT ![r] = "circle_create"]
    /\ UNCHANGED <<held, cfgvars, xstate, planvars, idxvars, queue, history, create_rc>>

\* the chunk indices DTAR_enqueue_copy enqueues for a file, in the order of
\* its calls of handle->enqueue, lines 400-414
ChunkIndicesFullOnly(size) ==
    [c \in 1 .. (size \div chunk_size) |-> c - 1]

ChunkIndices(size) ==
    LET num_chunks == size \div chunk_size
        full == [c \in 1 .. num_chunks |-> c - 1]
    IN  IF num_chunks * chunk_size < size \/ num_chunks = 0
        THEN Append(full, num_chunks) ELSE full

\* the work items it enqueues for local entry i of rank r, in that order
WorkItems(r, i) ==
    LET g == Shard(r)[i]
        dataoffset == DTAR_offsets[r][i] + DTAR_header_sizes[r][i]
        cs == ChunkIndices(flist[g].size)
    IN  IF flist[g].type = "FILE"
        THEN [k \in 1 .. Len(cs) |->
                 [file_size |-> flist[g].size, chunk_index |-> cs[k],
                  offset |-> dataoffset, operand |-> g]]
        ELSE <<>>

\* all the calls of handle->enqueue of rank r from local entry i on
RECURSIVE EnqueuedFrom(_, _)
EnqueuedFrom(r, i) ==
    IF i > Len(Shard(r)) THEN <<>> ELSE WorkItems(r, i) \o EnqueuedFrom(r, i + 1)

\* DTAR_enqueue_copy, the create callback of rank r
DTAR_enqueue_copy(r) ==
    /\ pc[r] = "circle_create"
    /\ LET calls == EnqueuedFrom(r, 1)
       IN  /\ queue' = queue \cup { calls[k] : k \in 1 .. Len(calls) }
           /\ enqueued' = enqueued \cup
                 { [rank |-> r, call |-> k, op |-> calls[k]] : k \in 1 .. Len(calls) }
    /\ pc' = [pc EXCEPT ![r] = "circle"]
    /\ UNCHANGED <<held, cfgvars, xstate, planvars, archive, idxvars, copied, old_size,
                   create_rc>>

(***************************************************************************)
(* DTAR_perform_copy.  mfu_read returns up to the number of bytes asked    *)
(* for: all that are left up to that number, or, when "short" is positive  *)
(* and smaller, only "short" bytes; 0 at the end of the file.              *)
(***************************************************************************)
ShortReadLens == {100}

ReadLen(avail, req, short) ==
    IF short > 0 /\ short < Min(req, avail) THEN short ELSE Min(req, avail)

\* the copy loop, lines 440-448: every read asks for chunk_size bytes; the
\* result is total_bytes_written.  Only the first read may be short.
RECURSIVE CopyLoop(_, _, _, _)
CopyLoop(fsz, pos, total, short) ==
    IF ~(total < chunk_size) THEN total
    ELSE LET n == ReadLen(fsz - pos, chunk_size, short)
         IN  IF n = 0 THEN total ELSE CopyLoop(fsz, pos + n, total + n, 0)

LastChunkIsCount(file_size) == file_size \div chunk_size

\* lines 453-455; for file_size 0 num_chunks - 1 wraps around in uint64_t to
\* 2^64 - 1, which is no chunk index: the model keeps it as -1
LastChunk(file_size) ==
    LET num_chunks == file_size \div chunk_size
        rem == file_size - chunk_size * num_chunks
    IN  IF rem # 0 THEN num_chunks ELSE num_chunks - 1

\* lines 459-463: the number of zero bytes written after the last chunk
NoPadding(file_size) == 0

Padding(file_size) ==
    LET padding == BlockSize - (file_size % BlockSize)
    IN  IF padding > 0 /\ padding # BlockSize THEN padding ELSE 0

\* the bytes of payload one work item writes
CopyTotal(op, short) ==
    IF fault.k = "open" /\ fault.g = op.operand THEN 0
    ELSE CopyLoop(flist[op.operand].size, chunk_size * op.chunk_index, 0, short)

\* the zero bytes it writes after them
CopyPad(op) ==
    IF op.chunk_index = LastChunk(op.file_size) THEN Padding(op.file_size) ELSE 0

CopyInto(A, op, short) ==
    LET in_offset  == chunk_size * op.chunk_index
        out_offset == op.offset + in_offset
        total      == CopyTotal(op, short)
        A1 == WriteAt(A, out_offset, <<Run(total, "data", op.operand, in_offset)>>)
    IN  WriteAt(A1, out_offset + total, <<Zeros(CopyPad(op))>>)

\* handle->dequeue, line 423: the work item leaves the queue.  In the
\* variant it stays there.
DequeueLeavesItem(op) == queue

Dequeue(op) == queue \ {op}

\* the process callback: a rank that is in CIRCLE_begin dequeues one work
\* item, its own or one it has stolen, and copies it.  The callback reads
\* nothing of the rank it runs on but the globals that are equal on all.
DTAR_perform_copy(op, short) ==
    /\ {r \in CRanks : pc[r] = "circle"} # {}
    /\ op \in queue
    /\ queue' = Dequeue(op)
    /\ archive' = CopyInto(archive, op, short)
    /\ copied' = copied \cup
          { [operand |-> op.operand, chunk_index |-> op.chunk_index,
             lo |-> op.offset + chunk_size * op.chunk_index,
             data_hi |-> op.offset + chunk_size * op.chunk_index
                         + CopyTotal(op, short),
             last |-> op.chunk_index = LastChunk(op.file_size),
             hi |-> op.offset + chunk_size * op.chunk_index
                    + CopyTotal(op, short) + CopyPad(op)] }
    /\ UNCHANGED <<held, cfgvars, xstate, planvars, idxvars, pc, create_rc, old_size,
                   enqueued>>

\* line 451: what the work items processed so far have added to
\* reduce_bytes, summed over the ranks that ran them (line 931 sets each
\* rank's counter to 0 before the copy)
reduce_bytes ==
    SeqSum([g \in 1 .. Len(flist) |->
        SeqSum([j \in 1 .. (flist[g].size \div chunk_size + 1) |->
            LET done == {c \in copied : c.operand = g /\ c.chunk_index = j - 1}
            IN  IF done = {} THEN 0
                ELSE LET c == CHOOSE x \in done : TRUE IN c.data_hi - c.lo])])

\* CIRCLE_begin returns on every rank once every rank has created its work
\* and no work is left, lines 944-945
CircleDone ==
    /\ \A r \in CRanks : pc[r] = "circle"
    /\ queue = {}
    /\ pc' = [r \in Ranks |-> IF r \in CRanks THEN "trailer" ELSE pc[r]]
    /\ UNCHANGED <<held, cfgvars, xstate, planvars, archive, idxvars, queue, history, create_rc>>

\* rank 0 writes the two final blocks; every rank closes the archive,
\* lines 949-962.  Line 958 adds the two blocks to rank 0's own copy of
\* archive_size, which from there on only feeds the statistics it prints:
\* archive_size stays the planned size here.
TrailerAfterFinalSize(A) ==
    WriteAt(A, archive_size + TrailerSize, <<Zeros(TrailerSize)>>)

ArchiveWithTrailer(A) == WriteAt(A, archive_size, <<Zeros(TrailerSize)>>)

Trailer(r) ==
    /\ pc[r] = "trailer"
    /\ archive' = IF r = 0 THEN ArchiveWithTrailer(archive) ELSE archive
    /\ held' = Hold(held, r, -1, 0)
    /\ pc' = [pc EXCEPT ![r] = "end_bar"]
    /\ UNCHANGED <<cfgvars, xstate, planvars, idxvars, queue, history, create_rc>>

\* rc is set at line 761 and returned at line 1013; nothing assigns it
CreateRc(r) == MFU_SUCCESS

\* MPI_Barrier of line 965, clean up and return
EndBarrier ==
    /\ \A r \in CRanks : pc[r] = "end_bar"
    /\ create_rc' = [r \in Ranks |-> IF r \in CRanks THEN CreateRc(r) ELSE create_rc[r]]
    /\ pc' = [r \in Ranks |-> IF r \in CRanks THEN "created" ELSE pc[r]]
    /\ UNCHANGED <<held, cfgvars, xstate, planvars, archive, idxvars, queue, history>>

(***************************************************************************)
(* Reading the archive with libarchive's tar reader.  A header is          *)
(* recognised where the complete header of an entry starts; a block of     *)
(* zero bytes, or the end of the file, is the end of the archive; anything *)
(* else is an error.  A reader without decompression filters cannot read a *)
(* compressed archive.                                                     *)
(***************************************************************************)
ReadHeaderAt(A, pos, filtered) ==
    LET rest == RDrop(A, pos)
    IN  IF compressed /\ ~filtered THEN [st |-> "FATAL", e |-> 0]
        ELSE IF rest = <<>> THEN [st |-> "EOF", e |-> 0]
        ELSE IF /\ rest[1].k = "hdr"
                /\ rest[1].o = 0
                /\ rest[1].n = flist[rest[1].e].hsize
             THEN [st |-> "OK", e |-> rest[1].e]
        ELSE IF ReadsZero(RTake(rest, BlockSize)) THEN [st |-> "EOF", e |-> 0]
        ELSE [st |-> "FATAL", e |-> 0]

\* archive_entry_size of a decoded header: only regular files carry data
EntryDataSize(e) == IF flist[e].type = "FILE" THEN flist[e].size ELSE 0

\* where the reader stands after the entry whose header starts at pos
AfterEntry(e, pos) == pos + flist[e].hsize + PaddedSize(EntryDataSize(e))

\* the loop of archive_read_next_header from pos on: the header positions
\* found and whether the end of the archive was reached without error
RECURSIVE ScanFrom(_, _, _, _)
ScanFrom(A, pos, filtered, found) ==
    LET h == ReadHeaderAt(A, pos, filtered)
    IN  CASE h.st = "OK" ->
               ScanFrom(A, AfterEntry(h.e, pos), filtered, Append(found, pos))
          [] h.st = "EOF" -> [rc |-> MFU_SUCCESS, offsets |-> found]
          [] OTHER -> [rc |-> MFU_FAILURE, offsets |-> found]

(***************************************************************************)
(* mfu_flist_archive_extract.                                              *)
(***************************************************************************)
\* an index file that lost its last bytes between the two runs (a copy that
\* was cut short): its size, which rank 0 reads with stat at line 634, is no
\* multiple of 8
DamagedIndex(f) ==
    IF Len(f.data) < IdxWord THEN f
    ELSE [f EXCEPT !.data = SubSeq(@, 1, Len(@) - 3)]

\* a new run: the ranks of the create run have returned and freed their
\* tables; the archive and perhaps its index are what is left of it
StartExtract ==
    /\ run = "create"
    /\ \A r \in CRanks : pc[r] = "created"
    /\ run' = "extract"
    /\ \E R \in 1 .. MaxRanks :
          /\ nranks' = R
          /\ pc' = [r \in Ranks |-> IF r < R THEN "x_readidx" ELSE "off"]
    /\ \E m \in {"index", "noindex", "compressed"} :
          /\ idxfile' = IF m # "index" THEN NoIndexFile
                         ELSE IF fault.k = "idxcut" THEN DamagedIndex(idxfile)
                         ELSE idxfile
          /\ compressed' = (m = "compressed")
    /\ owner' = <<>>
    /\ chunk_size' = 0
    /\ DTAR_header_sizes' = [r \in Ranks |-> <<>>]
    /\ DTAR_offsets' = [r \in Ranks |-> <<>>]
    /\ fsizes' = [r \in Ranks |-> <<>>]
    /\ local_bytes' = [r \in Ranks |-> 0]
    /\ data_bytes' = [r \in Ranks |-> 0]
    /\ archive_size' = 0
    /\ idx_off' = [r \in Ranks |-> 0]
    /\ idx_ok' = [r \in Ranks |-> FALSE]
    /\ idx_result' = [r \in Ranks |-> -1]
    /\ idx_args' = idx_args
    /\ copied' = {}
    /\ enqueued' = {}
    /\ old_size' = 0
    /\ create_rc' = [r \in Ranks |-> "none"]
    /\ UNCHANGED <<held, codecvars, checkvars, flist, fault, DTAR_total_bytes, DTAR_total_items, archive,
                   queue, xvars>>

\* read_entry_index, lines 616-705.  Rank 0 reads the index and broadcasts.
\* have_index is an int that is broadcast as one MPI_UINT64_T (line 668):
\* on every other rank 8 bytes are stored into 4, and the 4 bytes next to
\* have_index take rank 0's value.  Where every rank holds the same value
\* there nothing changes (wild = -1); where a rank holds a pointer its
\* pointer is lost and the rank does not return (wild = that rank).
IndexReadable == idxfile.exists

IndexFileCount == Len(idxfile.data) \div IdxWord

read_entry_index ==
    /\ \A r \in CRanks : pc[r] = "x_readidx"
    /\ \E wild \in {-1} \cup (CRanks \ {0}) :
          IF IndexReadable
          THEN /\ have_index' = TRUE
               /\ entries' = IndexFileCount
               /\ offsets' = UnpackAll(idxfile.data, IndexFileCount)
               /\ pc' = [r \in Ranks |->
                     IF r \notin CRanks THEN pc[r]
                     ELSE IF r = wild THEN "crashed" ELSE "x_part"]
          ELSE /\ have_index' = FALSE
               /\ UNCHANGED <<entries, offsets>>
               /\ pc' = [r \in Ranks |->
                     IF r \notin CRanks THEN pc[r]
                     ELSE IF r = wild THEN "crashed" ELSE "x_scan"]
    /\ UNCHANGED <<held, cfgvars, planvars, archive, idxvars, queue, history, create_rc,
                   run, compressed, have_offsets, entry_start, entry_count, xflist,
                   flist_rc, files_rc, disk, mkdirs, extract_rc>>

\* index_entries, lines 1148-1316: rank 0 scans the archive with the plain
\* tar reader and broadcasts what it found
index_entries ==
    /\ \A r \in CRanks : pc[r] = "x_scan"
    /\ LET sc == ScanFrom(archive, 0, FALSE, <<>>)
       IN  IF sc.rc = MFU_SUCCESS
           THEN /\ have_offsets' = TRUE
                /\ entries' = Len(sc.offsets)
                /\ offsets' = sc.offsets
           ELSE /\ have_offsets' = FALSE
                /\ UNCHANGED <<entries, offsets>>
    /\ pc' = [r \in Ranks |-> IF r \in CRanks THEN "x_part" ELSE pc[r]]
    /\ UNCHANGED <<held, cfgvars, planvars, archive, idxvars, queue, history, create_rc,
                   run, compressed, have_index, entry_start, entry_count, xflist,
                   flist_rc, files_rc, disk, mkdirs, extract_rc>>

\* the function that builds the metadata list, lines 2080-2084, and the one
\* that extracts the items, lines 2109-2113
FlistPath == IF have_offsets THEN "x_flist_open" ELSE "x_flist_stride"

FilesPathByIndex == IF have_index THEN "x_files" ELSE "x_files_stride"

FilesPath == IF have_offsets THEN "x_files" ELSE "x_files_stride"

\* rank r computes its range of entries, lines 2063-2076, and chooses the
\* path of the metadata phase, line 2080
Partition(r) ==
    /\ pc[r] = "x_part"
    /\ entry_count' = [entry_count EXCEPT ![r] = EntryCount(entries, nranks, r)]
    /\ entry_start' = [entry_start EXCEPT ![r] = EntryStart(entries, nranks, r)]
    /\ pc' = [pc EXCEPT ![r] = FlistPath]
    /\ UNCHANGED <<held, cfgvars, planvars, archive, idxvars, queue, history, create_rc,
                   run, compressed, have_index, have_offsets, entries, offsets,
                   xflist, flist_rc, files_rc, disk, mkdirs, extract_rc>>

\* the fault strikes rank r of the extract run
Struck(kind, r) == run = "extract" /\ fault.k = kind /\ fault.g = r

\* extract_flist_offsets up to its first mfu_alltrue, lines 1397-1410:
\* every rank opens the archive; if one could not, all return at once
extract_flist_open ==
    /\ \A r \in CRanks : pc[r] = "x_flist_open"
    /\ held' = [r \in Ranks |->
          IF r \in CRanks /\ ~Struck("xopen", r)
          THEN [held[r] EXCEPT !.fds = @ + 1] ELSE held[r]]
    /\ IF \E r \in CRanks : Struck("xopen", r)
       THEN /\ flist_rc' = [r \in Ranks |-> IF r \in CRanks THEN MFU_FAILURE ELSE flist_rc[r]]
            /\ pc' = [r \in Ranks |-> IF r \in CRanks THEN "x_mkdir" ELSE pc[r]]
       ELSE /\ flist_rc' = flist_rc
            /\ pc' = [r \in Ranks |-> IF r \in CRanks THEN "x_flist_loop" ELSE pc[r]]
    /\ UNCHANGED <<cfgvars, planvars, archive, idxvars, queue, history, create_rc,
                   run, compressed, have_index, have_offsets, entries, offsets,
                   entry_start, entry_count, xflist, files_rc, disk, mkdirs, extract_rc>>

\* the loop of lines 1418-1491 from its count-th round on: the entries
\* inserted into the list, the value of rc when the loop is left and the
\* readers that were created and not freed.  The fault "xflist" is an
\* archive_read_open_fd that fails (line 1441); every break after
\* archive_read_new (line 1432) leaves the loop before archive_read_free
\* (line 1482).
RECURSIVE FlistLoop(_, _, _)
FlistLoop(r, count, found) ==
    IF ~(count < entry_count[r]) THEN [rc |-> MFU_SUCCESS, list |-> found, alive |-> 0]
    ELSE LET idx    == entry_start[r] + count
             offset == offsets[idx + 1]
             h      == ReadHeaderAt(archive, offset, FALSE)
         IN  IF Struck("xflist", r) /\ count = 0
             THEN [rc |-> MFU_FAILURE, list |-> found, alive |-> 1]
             ELSE IF h.st # "OK" THEN [rc |-> MFU_FAILURE, list |-> found, alive |-> 1]
             ELSE FlistLoop(r, count + 1, Append(found, h.e))

extract_flist_offsets(r) ==
    /\ pc[r] = "x_flist_loop"
    /\ LET res == FlistLoop(r, 0, <<>>)
       IN  /\ xflist' = [xflist EXCEPT ![r] = res.list]
           /\ flist_rc' = [flist_rc EXCEPT ![r] = res.rc]
           /\ held' = Hold(held, r, -1, res.alive)
    /\ pc' = [pc EXCEPT ![r] = "x_flist_all"]
    /\ UNCHANGED <<cfgvars, planvars, archive, idxvars, queue, history, create_rc,
                   run, compressed, have_index, have_offsets, entries, offsets,
                   entry_start, entry_count, files_rc, disk, mkdirs, extract_rc>>

\* mfu_flist_summarize and mfu_alltrue, lines 1493-1506
extract_flist_alltrue ==
    /\ \A r \in CRanks : pc[r] = "x_flist_all"
    /\ flist_rc' = [r \in Ranks |->
          IF r \notin CRanks THEN flist_rc[r]
          ELSE IF \A q \in CRanks : flist_rc[q] = MFU_SUCCESS
               THEN flist_rc[r] ELSE MFU_FAILURE]
    /\ pc' = [r \in Ranks |-> IF r \in CRanks THEN "x_mkdir" ELSE pc[r]]
    /\ UNCHANGED <<held, cfgvars, planvars, archive, idxvars, queue, history, create_rc,
                   run, compressed, have_index, have_offsets, entries, offsets,
                   entry_start, entry_count, xflist, files_rc, disk, mkdirs, extract_rc>>

\* the entries a reader with every filter finds from the start of the archive
StrideScan == ScanFrom(archive, 0, TRUE, <<>>)

StrideEntry(k) == ReadHeaderAt(archive, StrideScan.offsets[k], TRUE).e

StrideMineCountsFromOne(r) ==
    { k \in 1 .. Len(StrideScan.offsets) : k % nranks = r }

\* the 1-based positions of the entries that rank r takes: count % ranks
StrideMine(r) ==
    { k \in 1 .. Len(StrideScan.offsets) : (k - 1) % nranks = r }

RECURSIVE StrideList(_, _)
StrideList(r, k) ==
    IF k > Len(StrideScan.offsets) THEN <<>>
    ELSE (IF k \in StrideMine(r) THEN <<StrideEntry(k)>> ELSE <<>>)
         \o StrideList(r, k + 1)

\* extract_flist, lines 1509-1583: it returns nothing; an archive that
\* cannot be opened (line 1544) and a header that cannot be read (line 1564)
\* end the process with exit()
extract_flist(r) ==
    /\ pc[r] = "x_flist_stride"
    /\ IF StrideScan.rc = MFU_SUCCESS /\ ~Struck("xopen", r)
       THEN /\ xflist' = [xflist EXCEPT ![r] = StrideList(r, 1)]
            /\ pc' = [pc EXCEPT ![r] = "x_mkdir"]
       ELSE /\ xflist' = xflist
            /\ pc' = [pc EXCEPT ![r] = "exited"]
    /\ UNCHANGED <<held, cfgvars, planvars, archive, idxvars, queue, history, create_rc,
                   run, compressed, have_index, have_offsets, entries, offsets,
                   entry_start, entry_count, flist_rc, files_rc, disk, mkdirs, extract_rc>>

\* flist_sum_bytes, lines 1972-1993
flist_sum_bytes ==
    SeqSum([r \in 1 .. nranks |->
        SeqSum([i \in 1 .. Len(xflist[r - 1]) |-> EntryDataSize(xflist[r - 1][i])])])

ExtractWithoutMkdir == FilesPath

\* line 2101: after the totals every rank calls mfu_flist_mkdir
AfterTotals == "x_mkdir_own"

\* lines 2087-2088: flist_sum_bytes and mfu_flist_global_size, collectives
SumTotals ==
    /\ \A r \in CRanks : pc[r] = "x_mkdir"
    /\ DTAR_total_bytes' = flist_sum_bytes
    /\ DTAR_total_items' = SeqSum([r \in 1 .. nranks |-> Len(xflist[r - 1])])
    /\ pc' = [r \in Ranks |-> IF r \in CRanks THEN AfterTotals ELSE pc[r]]
    /\ UNCHANGED <<held, cfgvars, DTAR_header_sizes, DTAR_offsets, fsizes, local_bytes,
                   data_bytes, archive_size, archive, idxvars, queue, history,
                   create_rc, xstate>>

\* mfu_flist_mkdir, called at line 2101: rank r creates the directories of
\* its own list ...
mfu_flist_mkdir(r) ==
    /\ pc[r] = "x_mkdir_own"
    /\ mkdirs' = mkdirs \cup
                   { e \in Entries :
                       /\ flist[e].type = "DIR"
                       /\ \E i \in 1 .. Len(xflist[r]) : xflist[r][i] = e }
    /\ pc' = [pc EXCEPT ![r] = "x_mkdir_bar"]
    /\ UNCHANGED <<held, cfgvars, planvars, archive, idxvars, queue, history, create_rc,
                   run, compressed, have_index, have_offsets, entries, offsets,
                   entry_start, entry_count, xflist, flist_rc, files_rc, disk,
                   extract_rc>>

\* ... and returns when every rank has created its directories
MkdirWaitsFor == CRanks

MkdirReturn ==
    /\ \E r \in CRanks : pc[r] = "x_mkdir_bar"
    /\ \A r \in MkdirWaitsFor : pc[r] = "x_mkdir_bar"
    /\ pc' = [r \in Ranks |->
          IF r \in CRanks /\ pc[r] = "x_mkdir_bar" THEN FilesPath ELSE pc[r]]
    /\ UNCHANGED <<held, cfgvars, planvars, archive, idxvars, queue, history, create_rc,
                   xstate>>

\* archive_write_header and copy_data for the entry whose header starts at
\* offset: the item is made once more and takes the bytes that follow the
\* header in the archive
Materialize(D, e, offset) ==
    [D EXCEPT ![e] = [made |-> @.made + 1,
                      data |-> RSlice(archive, offset + flist[e].hsize, EntryDataSize(e))]]

\* the loop of lines 1686-1777 from its count-th round on; the break at the
\* end of the archive (line 1725) leaves it before archive_read_free
FilesLoopIgnoresRc(r, count, rc) == count < entry_count[r]

\* the loop condition of line 1687
FilesLoopRuns(r, count, rc) == count < entry_count[r] /\ rc = MFU_SUCCESS

RECURSIVE FilesLoop(_, _, _, _)
FilesLoop(r, count, rc, D) ==
    IF ~FilesLoopRuns(r, count, rc)
    THEN [rc |-> rc, disk |-> D, alive |-> 0]
    ELSE LET idx    == entry_start[r] + count
             offset == offsets[idx + 1]
             h      == ReadHeaderAt(archive, offset, FALSE)
         IN  IF h.st = "EOF" THEN [rc |-> MFU_FAILURE, disk |-> D, alive |-> 1]
             ELSE IF h.st # "OK" \/ (Struck("xfiles", r) /\ count = 0)
             THEN FilesLoop(r, count + 1, MFU_FAILURE, D)
             ELSE FilesLoop(r, count + 1, rc, Materialize(D, h.e, offset))

NoBarrierAfterLoop == "x_free"

\* after its loop a rank waits in the barrier of line 1785 (line 1934 in
\* extract_files) before it closes its disk writer
AfterFilesLoop == "x_bar1"

\* extract_files_offsets up to its first barrier, lines 1631-1780.  The
\* descriptor of line 1658 is given to archive_read_open_fd, which leaves it
\* open, and the function has no mfu_close.
extract_files_offsets(r) ==
    /\ pc[r] = "x_files"
    /\ LET res == FilesLoop(r, 0, IF Struck("xopen", r) THEN MFU_FAILURE ELSE MFU_SUCCESS, disk)
       IN  /\ disk' = res.disk
           /\ files_rc' = [files_rc EXCEPT ![r] = res.rc]
           /\ held' = Hold(held, r, IF Struck("xopen", r) THEN 0 ELSE 1, res.alive)
    /\ pc' = [pc EXCEPT ![r] = AfterFilesLoop]
    /\ UNCHANGED <<cfgvars, planvars, archive, idxvars, queue, history, create_rc,
                   run, compressed, have_index, have_offsets, entries, offsets,
                   entry_start, entry_count, xflist, flist_rc, mkdirs, extract_rc>>

\* the loop of lines 1877-1920 from the k-th entry of the archive on
RECURSIVE StrideLoop(_, _, _, _)
StrideLoop(r, k, rc, D) ==
    IF k > Len(StrideScan.offsets) THEN [rc |-> rc, disk |-> D]
    ELSE IF k \notin StrideMine(r) THEN StrideLoop(r, k + 1, rc, D)
    ELSE IF Struck("xfiles", r) /\ k = r + 1 THEN StrideLoop(r, k + 1, MFU_FAILURE, D)
    ELSE StrideLoop(r, k + 1, rc, Materialize(D, StrideEntry(k), StrideScan.offsets[k]))

\* extract_files up to its first barrier, lines 1804-1925; its loop ends
\* only at the end of the archive.  Its one reader (line 1830) lives on.
extract_files(r) ==
    /\ pc[r] = "x_files_stride"
    /\ held' = Hold(held, r, 0, 1)
    /\ IF StrideScan.rc = MFU_SUCCESS
       THEN LET res == StrideLoop(r, 1, MFU_SUCCESS, disk)
            IN  /\ disk' = res.disk
                /\ files_rc' = [files_rc EXCEPT ![r] = res.rc]
                /\ pc' = [pc EXCEPT ![r] = AfterFilesLoop]
       ELSE /\ UNCHANGED <<disk, files_rc>>
            /\ pc' = [pc EXCEPT ![r] = "looping"]
    /\ UNCHANGED <<cfgvars, planvars, archive, idxvars, queue, history, create_rc,
                   run, compressed, have_index, have_offsets, entries, offsets,
                   entry_start, entry_count, xflist, flist_rc, mkdirs, extract_rc>>

\* the two barriers around archive_write_free, lines 1785-1799 and
\* 1925-1966, and the return to mfu_flist_archive_extract; extract_files
\* frees its reader between them (line 1955)
FilesBarrier ==
    /\ \A r \in CRanks : pc[r] = "x_bar1"
    /\ pc' = [r \in Ranks |-> IF r \in CRanks THEN "x_free" ELSE pc[r]]
    /\ UNCHANGED <<held, cfgvars, planvars, archive, idxvars, queue, history, create_rc, xstate>>

archive_write_free(r) ==
    /\ pc[r] = "x_free"
    /\ held' = Hold(held, r, 0, IF have_offsets THEN 0 ELSE -1)
    /\ pc' = [pc EXCEPT ![r] = "x_bar2"]
    /\ UNCHANGED <<cfgvars, planvars, archive, idxvars, queue, history, create_rc, xstate>>

FilesEndBarrier ==
    /\ \A r \in CRanks : pc[r] = "x_bar2"
    /\ pc' = [r \in Ranks |-> IF r \in CRanks THEN "x_dirs" ELSE pc[r]]
    /\ UNCHANGED <<held, cfgvars, planvars, archive, idxvars, queue, history, create_rc, xstate>>

\* lines 2115-2139: timestamps of the directories, then the index is written
\* when the offsets came from a scan
ApplyDirsAndIndex ==
    /\ \A r \in CRanks : pc[r] = "x_dirs"
    /\ pc' = [r \in Ranks |->
          IF r \notin CRanks THEN pc[r]
          ELSE IF have_offsets /\ ~have_index THEN "idx_scan" ELSE "x_end_bar"]
    /\ UNCHANGED <<held, cfgvars, planvars, archive, idxvars, queue, history, create_rc, xstate>>

\* rc is set at line 2002 and returned at line 2209; nothing assigns it,
\* and the values the two phases return are dropped (lines 2081-2112)
ExtractRc(r) == MFU_SUCCESS

\* MPI_Barrier of line 2145 and return
ExtractEnd ==
    /\ \A r \in CRanks : pc[r] = "x_end_bar"
    /\ extract_rc' = [r \in Ranks |-> IF r \in CRanks THEN ExtractRc(r) ELSE extract_rc[r]]
    /\ pc' = [r \in Ranks |-> IF r \in CRanks THEN "extracted" ELSE pc[r]]
    /\ UNCHANGED <<held, cfgvars, planvars, archive, idxvars, queue, history, create_rc,
                   run, compressed, have_index, have_offsets, entries, offsets,
                   entry_start, entry_count, xflist, flist_rc, files_rc, disk, mkdirs>>

(***************************************************************************)
(* The work item as a message of libcircle: DTAR_encode_operation prints   *)
(* it with snprintf, DTAR_decode_operation takes it apart with strtok and  *)
(* sscanf.  A string is a sequence of characters.                          *)
(***************************************************************************)
NoOperation == [st |-> "none", file_size |-> 0, chunk_index |-> 0, offset |-> 0,
                code |-> 0, operand |-> <<>>]

NoMessage == [st |-> "none", text |-> <<>>]

COPY_DATA == 0

DigitChars == <<"0", "1", "2", "3", "4", "5", "6", "7", "8", "9">>

\* what %d and PRIu64 print
RECURSIVE DigitsOf(_)
DigitsOf(n) ==
    IF n < 10 THEN <<DigitChars[n + 1]>>
    ELSE DigitsOf(n \div 10) \o <<DigitChars[(n % 10) + 1]>>

\* sscanf with one number conversion, from the i-th character on with acc
\* read so far: the number the string starts with, or -1 when it starts
\* with none and sscanf does not return 1
RECURSIVE ScanNumber(_, _, _)
ScanNumber(s, i, acc) ==
    IF i <= Len(s) /\ \E d \in 1 .. 10 : DigitChars[d] = s[i]
    THEN ScanNumber(s, i + 1,
                    10 * (IF acc < 0 THEN 0 ELSE acc)
                       + (CHOOSE d \in 1 .. 10 : DigitChars[d] = s[i]) - 1)
    ELSE acc

\* DTAR_encode_operation, lines 323-344
DTAR_encode_operation(code, operand, fsize, chunk_idx, offset) ==
    LET text == DigitsOf(fsize) \o <<":">> \o DigitsOf(chunk_idx) \o <<":">>
                \o DigitsOf(offset) \o <<":">> \o DigitsOf(code) \o <<":">>
                \o DigitsOf(Len(operand)) \o <<":">> \o operand
    IN  IF Len(text) >= MaxStringLen THEN [st |-> "abort", text |-> <<>>]
        ELSE [st |-> "ok", text |-> text]

\* the first position from p on whose character is not (delims) or is
\* (~delims) the delimiter ':'
RECURSIVE Span(_, _, _)
Span(s, p, delims) ==
    IF p <= Len(s) /\ ((s[p] = ":") <=> delims) THEN Span(s, p + 1, delims) ELSE p

\* strtok(.., ":") with its saved position at p: it skips the delimiters in
\* front, the token runs up to the next delimiter, which it overwrites with
\* the end of a string, and the saved position is behind that
strtok(s, p) ==
    LET b == Span(s, p, TRUE)
        e == Span(s, b, FALSE)
    IN  [null |-> b > Len(s), start |-> b, tok |-> SubSeq(s, b, e - 1),
         next |-> IF e <= Len(s) THEN e + 1 ELSE e]

OperandByToken(s, t, op_len) == strtok(s, t.next).tok

\* lines 377-380: the operand starts behind the token of its length and the
\* delimiter that followed it, and is cut after op_len characters
OperandBySkip(s, t, op_len) ==
    LET from == t.start + Len(t.tok) + 1
    IN  SubSeq(s, from, Min(from + op_len - 1, Len(s)))

\* DTAR_decode_operation, lines 346-384
DTAR_decode_operation(op) ==
    LET t1 == strtok(op, 1)
        t2 == strtok(op, t1.next)
        t3 == strtok(op, t2.next)
        t4 == strtok(op, t3.next)
        t5 == strtok(op, t4.next)
        n(t) == ScanNumber(t.tok, 1, -1)
    IN  IF \/ t1.null \/ t2.null \/ t3.null \/ t4.null \/ t5.null
           \/ n(t1) < 0 \/ n(t2) < 0 \/ n(t3) < 0 \/ n(t4) < 0 \/ n(t5) < 0
        THEN [NoOperation EXCEPT !.st = "abort"]
        ELSE [st |-> "ok", file_size |-> n(t1), chunk_index |-> n(t2),
              offset |-> n(t3), code |-> n(t4),
              operand |-> OperandBySkip(op, t5, n(t5))]

\* a work item is encoded as DTAR_enqueue_copy does it (lines 402-411) ...
EncodeOperation ==
    /\ op_in.st = "ok"
    /\ opstr.st = "none"
    /\ opstr' = DTAR_encode_operation(op_in.code, op_in.operand, op_in.file_size,
                                      op_in.chunk_index, op_in.offset)
    /\ UNCHANGED <<held, flist, owner, nranks, chunk_size, fault, op_in, op_out, pc,
                   checkvars, planvars, archive, idxvars, queue, history, create_rc,
                   xstate>>

\* ... and decoded as DTAR_perform_copy does it (lines 422-424)
DecodeOperation ==
    /\ opstr.st = "ok"
    /\ op_out.st = "none"
    /\ op_out' = DTAR_decode_operation(opstr.text)
    /\ UNCHANGED <<held, flist, owner, nranks, chunk_size, fault, op_in, opstr, pc,
                   checkvars, planvars, archive, idxvars, queue, history, create_rc,
                   xstate>>

(***************************************************************************)
(* Initial states.                                                         *)
(***************************************************************************)
FileLists == UNION { [1 .. n -> EntryKinds] : n \in 0 .. MaxEntries }

\* a sorted list is spread over the ranks in order: contiguous shards
Owners(n, R) ==
    { f \in [1 .. n -> 0 .. (R - 1)] : \A i, j \in 1 .. n : i < j => f[i] <= f[j] }

OldArchive(n) == IF n = 0 THEN <<>> ELSE <<Run(n, "old", 0, 0)>>

OldIndex(n) ==
    IF n = 0 THEN NoIndexFile
    ELSE [exists |-> TRUE, data |-> [i \in 1 .. (IdxWord * (MaxEntries + 1)) |-> 255]]

\* the faults that can strike a run over the list fl
CreateFaults(fl) ==
    { [k |-> kk, g |-> g] : kk \in {"probe_meta", "probe_nospace", "hwrite"},
                            g \in {h \in 1 .. Len(fl) : Supported(fl[h].type)} }
    \cup { [k |-> "open", g |-> g] : g \in {h \in 1 .. Len(fl) : fl[h].type = "FILE"} }

\* the open or the pwrite of write_entry_index fails on rank g
IndexFaults == { [k |-> kk, g |-> r] : kk \in {"idxopen", "idxwrite"}, r \in Ranks }

ExtractFaults ==
    { [k |-> kk, g |-> r] : kk \in {"xopen", "xflist", "xfiles"}, r \in Ranks }
    \cup { [k |-> "idxcut", g |-> 0] }

InitWith(faults) ==
    /\ flist \in FileLists
    /\ nranks \in 1 .. MaxRanks
    /\ owner \in Owners(Len(flist), nranks)
    /\ chunk_size \in ChunkSizes
    /\ fault \in CASE faults = "run"   -> CreateFaults(flist) \cup ExtractFaults
                   [] faults = "index" -> IndexFaults
                   [] faults = "copy"  -> {NoFault} \cup CreateFaults(flist)
                   [] OTHER            -> {NoFault}
    /\ pc = [r \in Ranks |-> IF r < nranks THEN "plan" ELSE "off"]
    /\ DTAR_header_sizes = [r \in Ranks |-> <<>>]
    /\ DTAR_offsets = [r \in Ranks |-> <<>>]
    /\ fsizes = [r \in Ranks |-> <<>>]
    /\ local_bytes = [r \in Ranks |-> 0]
    /\ data_bytes = [r \in Ranks |-> 0]
    /\ archive_size = 0
    /\ DTAR_total_bytes = 0
    /\ DTAR_total_items = 0
    /\ archive \in { OldArchive(n) : n \in OldArchiveLens }
    /\ idxfile \in { OldIndex(n) : n \in {0} \cup OldArchiveLens }
    /\ idx_off = [r \in Ranks |-> 0]
    /\ idx_ok = [r \in Ranks |-> FALSE]
    /\ idx_result = [r \in Ranks |-> -1]
    /\ idx_args = <<>>
    /\ queue = {}
    /\ copied = {}
    /\ enqueued = {}
    /\ old_size = 0
    /\ create_rc = [r \in Ranks |-> "none"]
    /\ run = "create"
    /\ compressed = FALSE
    /\ have_index = TRUE
    /\ have_offsets = TRUE
    /\ entries = 0
    /\ offsets = <<>>
    /\ entry_start = [r \in Ranks |-> 0]
    /\ entry_count = [r \in Ranks |-> 0]
    /\ xflist = [r \in Ranks |-> <<>>]
    /\ flist_rc = [r \in Ranks |-> "none"]
    /\ files_rc = [r \in Ranks |-> "none"]
    /\ disk = [e \in 1 .. Len(flist) |-> [made |-> 0, data |-> <<>>]]
    /\ mkdirs = {}
    /\ extract_rc = [r \in Ranks |-> "none"]
    /\ held = [r \in Ranks |-> [fds |-> 0, readers |-> 0]]
    /\ op_in = NoOperation
    /\ opstr = NoMessage
    /\ op_out = NoOperation
    /\ access = [src |-> [r \in Ranks |-> <<>>], parent |-> [r \in Ranks |-> FALSE]]
    /\ destparam = [path |-> "", path_stat_valid |-> FALSE]
    /\ valid = [r \in Ranks |-> -1]
    /\ dest_path = [r \in Ranks |-> "NULL"]

Init == InitWith("none")

InitFault == InitWith("run")

InitIndexFault == InitWith("index")

vars == <<held, cfgvars, pc, planvars, archive, idxvars, queue, history, create_rc, xstate>>

Next ==
    \/ \E r \in CRanks : Plan(r)
    \/ PlanReduce
    \/ IdxScan
    \/ IdxCreate
    \/ IdxBarrier
    \/ \E r \in CRanks : IdxWrite(r)
    \/ IdxAllTrue
    \/ TruncateArchive
    \/ TruncBarrier
    \/ \E r \in CRanks : WriteHeaders(r)
    \/ \E r \in CRanks : DTAR_enqueue_copy(r)
    \/ \E op \in queue, short \in {0} \cup ShortReadLens :
          DTAR_perform_copy(op, short)
    \/ CircleDone
    \/ \E r \in CRanks : Trailer(r)
    \/ EndBarrier
    \/ StartExtract
    \/ read_entry_index
    \/ index_entries
    \/ \E r \in CRanks : Partition(r)
    \/ extract_flist_open
    \/ \E r \in CRanks : extract_flist_offsets(r)
    \/ extract_flist_alltrue
    \/ \E r \in CRanks : extract_flist(r)
    \/ SumTotals
    \/ \E r \in CRanks : mfu_flist_mkdir(r)
    \/ MkdirReturn
    \/ \E r \in CRanks : extract_files_offsets(r)
    \/ \E r \in CRanks : extract_files(r)
    \/ FilesBarrier
    \/ \E r \in CRanks : archive_write_free(r)
    \/ FilesEndBarrier
    \/ ApplyDirsAndIndex
    \/ ExtractEnd

Spec == Init /\ [][Next]_vars

SpecFault == InitFault /\ [][Next]_vars

(***************************************************************************)
(* mfu_flist_archive_create_libcircle alone, run to its return, a failing  *)
(* call among the runs.  Every rank is a process that keeps running: a     *)
(* step of a rank that stays possible is taken, a collective that every    *)
(* rank has entered completes, and the work-stealing engine hands a queued *)
(* work item to some rank as long as one is queued and returns from        *)
(* CIRCLE_begin when none is left.                                         *)
(***************************************************************************)
InitCopy == InitWith("copy")

NextCreate ==
    \/ \E r \in CRanks : Plan(r)
    \/ PlanReduce
    \/ IdxScan
    \/ IdxCreate
    \/ IdxBarrier
    \/ \E r \in CRanks : IdxWrite(r)
    \/ IdxAllTrue
    \/ TruncateArchive
    \/ TruncBarrier
    \/ \E r \in CRanks : WriteHeaders(r)
    \/ \E r \in CRanks : DTAR_enqueue_copy(r)
    \/ \E op \in queue, short \in {0} \cup ShortReadLens :
          DTAR_perform_copy(op, short)
    \/ CircleDone
    \/ \E r \in CRanks : Trailer(r)
    \/ EndBarrier

SpecCreateFair ==
    /\ InitCopy
    /\ [][NextCreate]_vars
    /\ \A r \in Ranks :
          WF_vars(r \in CRanks /\ (Plan(r) \/ IdxWrite(r) \/ DTAR_enqueue_copy(r)))
    \* the steps of WriteHeaders(r) and Trailer(r), told by what they do to pc
    /\ \A r \in Ranks :
          WF_pc(\/ pc[r] = "headers" /\ pc' = [pc EXCEPT ![r] = "circle_create"]
                \/ pc[r] = "trailer" /\ pc' = [pc EXCEPT ![r] = "end_bar"])
    /\ WF_vars(PlanReduce \/ IdxScan \/ IdxCreate \/ IdxBarrier \/ IdxAllTrue
                \/ TruncateArchive \/ TruncBarrier \/ CircleDone \/ EndBarrier)
    \* the step of DTAR_perform_copy, told by what it does to the queue
    /\ WF_queue(/\ {r \in CRanks : pc[r] = "circle"} # {}
                /\ \E op \in queue : queue' = Dequeue(op))

\* create up to the return of write_entry_index (line 879), with a failing
\* open or pwrite of the index file
NextIndex ==
    \/ \E r \in CRanks : Plan(r)
    \/ PlanReduce
    \/ IdxScan
    \/ IdxCreate
    \/ IdxBarrier
    \/ \E r \in CRanks : IdxWrite(r)
    \/ IdxAllTrue

SpecIndexFault == InitIndexFault /\ [][NextIndex]_vars

(***************************************************************************)
(* The partition of lines 2063-2076 on its own, for entry counts and rank  *)
(* counts beyond those of the archives above.                              *)
(***************************************************************************)
PartRanks == 0 .. (MaxPartRanks - 1)

InitPartition ==
    /\ entries \in 0 .. MaxPartEntries
    /\ nranks \in 1 .. MaxPartRanks
    /\ pc = [r \in PartRanks |-> IF r < nranks THEN "x_part" ELSE "off"]
    /\ entry_start = [r \in PartRanks |-> 0]
    /\ entry_count = [r \in PartRanks |-> 0]
    /\ offsets = [k \in 1 .. entries |-> 0]
    /\ have_index = TRUE
    /\ have_offsets = TRUE
    /\ run = "extract"
    /\ compressed = FALSE
    /\ flist = <<>>
    /\ owner = <<>>
    /\ chunk_size = 0
    /\ fault = NoFault
    /\ DTAR_header_sizes = [r \in PartRanks |-> <<>>]
    /\ DTAR_offsets = [r \in PartRanks |-> <<>>]
    /\ fsizes = [r \in PartRanks |-> <<>>]
    /\ local_bytes = [r \in PartRanks |-> 0]
    /\ data_bytes = [r \in PartRanks |-> 0]
    /\ archive_size = 0
    /\ DTAR_total_bytes = 0
    /\ DTAR_total_items = 0
    /\ archive = <<>>
    /\ idxfile = NoIndexFile
    /\ idx_off = [r \in PartRanks |-> 0]
    /\ idx_ok = [r \in PartRanks |-> FALSE]
    /\ idx_result = [r \in PartRanks |-> -1]
    /\ idx_args = <<>>
    /\ queue = {}
    /\ copied = {}
    /\ enqueued = {}
    /\ old_size = 0
    /\ create_rc = [r \in PartRanks |-> "none"]
    /\ xflist = [r \in PartRanks |-> <<>>]
    /\ flist_rc = [r \in PartRanks |-> "none"]
    /\ files_rc = [r \in PartRanks |-> "none"]
    /\ disk = <<>>
    /\ mkdirs = {}
    /\ extract_rc = [r \in PartRanks |-> "none"]
    /\ held = [r \in PartRanks |-> [fds |-> 0, readers |-> 0]]
    /\ op_in = NoOperation
    /\ opstr = NoMessage
    /\ op_out = NoOperation
    /\ access = [src |-> [r \in PartRanks |-> <<>>], parent |-> [r \in PartRanks |-> FALSE]]
    /\ destparam = [path |-> "", path_stat_valid |-> FALSE]
    /\ valid = [r \in PartRanks |-> -1]
    /\ dest_path = [r \in PartRanks |-> "NULL"]

NextPartition == \E r \in CRanks : Partition(r)

SpecPartition == InitPartition /\ [][NextPartition]_vars

\* the work items the codec is tried on: names with ':' and digits in them
CodecInputs ==
    { [st |-> "ok", file_size |-> fs, chunk_index |-> ci, offset |-> off,
       code |-> COPY_DATA, operand |-> nm] :
      fs \in {0, 7, 1030}, ci \in {0, 2, 10}, off \in {512, 2048},
      nm \in UNION { [1 .. n -> {"a", ":", "7"}] : n \in 1 .. MaxNameLen } }

InitCodec ==
    /\ entries = 0
    /\ nranks = 1
    /\ pc = [r \in PartRanks |-> "off"]
    /\ entry_start = [r \in PartRanks |-> 0]
    /\ entry_count = [r \in PartRanks |-> 0]
    /\ offsets = [k \in 1 .. entries |-> 0]
    /\ have_index = TRUE
    /\ have_offsets = TRUE
    /\ run = "create"
    /\ compressed = FALSE
    /\ flist = <<>>
    /\ owner = <<>>
    /\ chunk_size = 0
    /\ fault = NoFault
    /\ DTAR_header_sizes = [r \in PartRanks |-> <<>>]
    /\ DTAR_offsets = [r \in PartRanks |-> <<>>]
    /\ fsizes = [r \in PartRanks |-> <<>>]
    /\ local_bytes = [r \in PartRanks |-> 0]
    /\ data_bytes = [r \in PartRanks |-> 0]
    /\ archive_size = 0
    /\ DTAR_total_bytes = 0
    /\ DTAR_total_items = 0
    /\ archive = <<>>
    /\ idxfile = NoIndexFile
    /\ idx_off = [r \in PartRanks |-> 0]
    /\ idx_ok = [r \in PartRanks |-> FALSE]
    /\ idx_result = [r \in PartRanks |-> -1]
    /\ idx_args = <<>>
    /\ queue = {}
    /\ copied = {}
    /\ enqueued = {}
    /\ old_size = 0
    /\ create_rc = [r \in PartRanks |-> "none"]
    /\ xflist = [r \in PartRanks |-> <<>>]
    /\ flist_rc = [r \in PartRanks |-> "none"]
    /\ files_rc = [r \in PartRanks |-> "none"]
    /\ disk = <<>>
    /\ mkdirs = {}
    /\ extract_rc = [r \in PartRanks |-> "none"]
    /\ held = [r \in PartRanks |-> [fds |-> 0, readers |-> 0]]
    /\ op_in \in CodecInputs
    /\ opstr = NoMessage
    /\ op_out = NoOperation
    /\ access = [src |-> [r \in PartRanks |-> <<>>], parent |-> [r \in PartRanks |-> FALSE]]
    /\ destparam = [path |-> "", path_stat_valid |-> FALSE]
    /\ valid = [r \in PartRanks |-> -1]
    /\ dest_path = [r \in PartRanks |-> "NULL"]

NextCodec == EncodeOperation \/ DecodeOperation

SpecCodec == InitCodec /\ [][NextCodec]_vars

(***************************************************************************)
(* mfu_param_path_check_archive, lines 470-548.  Every rank tests the      *)
(* paths itself; what mfu_access answers is an input of each rank.         *)
(***************************************************************************)
\* lines 479-532 on rank r: the rank's own verdict, and opts->dest_path,
\* which line 506 sets after the test of the sources
mfu_param_path_check_archive(r) ==
    /\ pc[r] = "check"
    /\ LET num_readable ==
               Cardinality({i \in 1 .. Len(access.src[r]) : access.src[r][i]})
       IN  IF num_readable < 1
           THEN /\ valid' = [valid EXCEPT ![r] = 0]
                /\ dest_path' = dest_path
           ELSE /\ valid' = [valid EXCEPT ![r] =
                      IF destparam.path_stat_valid \/ access.parent[r] THEN 1 ELSE 0]
                /\ dest_path' = [dest_path EXCEPT ![r] = destparam.path]
    /\ pc' = [pc EXCEPT ![r] = "check_bcast"]
    /\ UNCHANGED <<held, flist, owner, nranks, chunk_size, fault, codecvars, access,
                   destparam, planvars, archive, idxvars, queue, history, create_rc,
                   xstate>>

\* line 538: every rank takes rank 0's verdict; lines 540-547: on a bad
\* verdict the ranks go to the barrier, on a good one they return
CheckBcast ==
    /\ \A r \in CRanks : pc[r] = "check_bcast"
    /\ valid' = [r \in DOMAIN valid |-> IF r \in CRanks THEN valid[0] ELSE valid[r]]
    /\ pc' = [r \in DOMAIN pc |->
          IF r \notin CRanks THEN pc[r]
          ELSE IF valid[0] = 0 THEN "check_bar" ELSE "checked"]
    /\ UNCHANGED <<held, flist, owner, nranks, chunk_size, fault, codecvars, access,
                   destparam, dest_path, planvars, archive, idxvars, queue, history,
                   create_rc, xstate>>

\* lines 545-546: the barrier, then DTAR_exit(EXIT_FAILURE)
CheckExit ==
    /\ \A r \in CRanks : pc[r] = "check_bar"
    /\ pc' = [r \in DOMAIN pc |-> IF r \in CRanks THEN "exited" ELSE pc[r]]
    /\ UNCHANGED <<held, cfgvars, planvars, archive, idxvars, queue, history, create_rc,
                   xstate>>

InitCheck ==
    /\ nranks \in 1 .. MaxRanks
    /\ pc = [r \in Ranks |-> IF r < nranks THEN "check" ELSE "off"]
    /\ \E n \in 0 .. MaxParams :
          access \in [src : [Ranks -> [1 .. n -> BOOLEAN]], parent : [Ranks -> BOOLEAN]]
    /\ \A r \in Ranks \ CRanks :
          ~access.parent[r] /\ \A i \in DOMAIN access.src[r] : ~access.src[r][i]
    /\ destparam \in [path : {"out.tar"}, path_stat_valid : BOOLEAN]
    /\ valid = [r \in Ranks |-> -1]
    /\ dest_path = [r \in Ranks |-> "NULL"]
    /\ entries = 0
    /\ entry_start = [r \in Ranks |-> 0]
    /\ entry_count = [r \in Ranks |-> 0]
    /\ offsets = [k \in 1 .. entries |-> 0]
    /\ have_index = TRUE
    /\ have_offsets = TRUE
    /\ run = "create"
    /\ compressed = FALSE
    /\ flist = <<>>
    /\ owner = <<>>
    /\ chunk_size = 0
    /\ fault = NoFault
    /\ DTAR_header_sizes = [r \in Ranks |-> <<>>]
    /\ DTAR_offsets = [r \in Ranks |-> <<>>]
    /\ fsizes = [r \in Ranks |-> <<>>]
    /\ local_bytes = [r \in Ranks |-> 0]
    /\ data_bytes = [r \in Ranks |-> 0]
    /\ archive_size = 0
    /\ DTAR_total_bytes = 0
    /\ DTAR_total_items = 0
    /\ archive = <<>>
    /\ idxfile = NoIndexFile
    /\ idx_off = [r \in Ranks |-> 0]
    /\ idx_ok = [r \in Ranks |-> FALSE]
    /\ idx_result = [r \in Ranks |-> -1]
    /\ idx_args = <<>>
    /\ queue = {}
    /\ copied = {}
    /\ enqueued = {}
    /\ old_size = 0
    /\ create_rc = [r \in Ranks |-> "none"]
    /\ xflist = [r \in Ranks |-> <<>>]
    /\ flist_rc = [r \in Ranks |-> "none"]
    /\ files_rc = [r \in Ranks |-> "none"]
    /\ disk = <<>>
    /\ mkdirs = {}
    /\ extract_rc = [r \in Ranks |-> "none"]
    /\ held = [r \in Ranks |-> [fds |-> 0, readers |-> 0]]
    /\ opstr = NoMessage
    /\ op_out = NoOperation
    /\ op_in = NoOperation

NextCheck ==
    \/ \E r \in CRanks : mfu_param_path_check_archive(r)
    \/ CheckBcast
    \/ CheckExit

SpecCheck == InitCheck /\ [][NextCheck]_vars

(***************************************************************************)
(* Views of the state that the properties below are stated in.             *)
(***************************************************************************)
\* the place of entry g in the shard of its rank
LocalIdx(g) == g - Cardinality({h \in Entries : owner[h] < owner[g]})

GOffset(g) == DTAR_offsets[owner[g]][LocalIdx(g)]

GSlot(g) == fsizes[owner[g]][LocalIdx(g)]

GHeader(g) == DTAR_header_sizes[owner[g]][LocalIdx(g)]

\* layout planning is over on every rank
Planned == run = "create" /\ \A r \in CRanks : pc[r] \notin {"plan", "plan_reduce"}

\* mfu_flist_archive_create has returned on every rank
Created == run = "create" /\ \A r \in CRanks : pc[r] = "created"

\* mfu_flist_archive_extract has returned on every rank
Extracted == run = "extract" /\ \A r \in CRanks : pc[r] = "extracted"

\* the byte intervals [lo1, hi1) and [lo2, hi2) share no byte
Disjoint(lo1, hi1, lo2, hi2) == hi1 <= lo1 \/ hi2 <= lo2 \/ hi1 <= lo2 \/ hi2 <= lo1

(***************************************************************************)
(* Properties.                                                             *)
(***************************************************************************)
\* C1: after layout planning every entry's slot ends at or before
\* archive_size, and every entry that comes later in global order starts at
\* or after the end of the slot: no two slots overlap.
C1_SlotsDoNotOverlap ==
    Planned =>
        \A i \in Entries :
            /\ GOffset(i) + GSlot(i) <= archive_size
            /\ \A j \in Entries : i < j => GOffset(j) >= GOffset(i) + GSlot(i)

\* two entries with slots of their own, planned by two different ranks
C1_Witness ==
    /\ Planned
    /\ \E i, j \in Entries : i < j /\ owner[i] < owner[j] /\ GSlot(i) > 0 /\ GSlot(j) > 0

\* C2: the byte intervals that two distinct work items write (payload and,
\* for a last chunk, padding) are disjoint, and no work item writes into the
\* header range of an entry or into the trailer range.
C2_WorkItemsWriteDisjointRanges ==
    run = "create" =>
        \A a \in copied :
            /\ \A b \in copied :
                  (a.operand # b.operand \/ a.chunk_index # b.chunk_index)
                  => Disjoint(a.lo, a.hi, b.lo, b.hi)
            /\ \A g \in Entries :
                  Disjoint(a.lo, a.hi, GOffset(g), GOffset(g) + GHeader(g))
            /\ Disjoint(a.lo, a.hi, archive_size, archive_size + TrailerSize)

\* a first chunk whose first read was short has written into the range of
\* the second chunk of the same file
C2_Witness ==
    /\ run = "create"
    /\ \E a, b \in copied :
          /\ a.operand = b.operand
          /\ a.chunk_index = 0
          /\ b.chunk_index = 1
          /\ a.hi > b.lo

\* C3: when create completes, the payload area of every regular file of size
\* S holds the S bytes of the file followed by (512 - S mod 512) mod 512
\* written zero bytes, ceil(S/512)*512 bytes in all, and the work items of
\* the file wrote nowhere else.
C3_PayloadIsContentThenZeroPad ==
    Created =>
        \A g \in Entries :
            flist[g].type = "FILE" =>
                LET S     == flist[g].size
                    pad   == (BlockSize - (S % BlockSize)) % BlockSize
                    total == ((S + BlockSize - 1) \div BlockSize) * BlockSize
                    start == GOffset(g) + GHeader(g)
                IN  /\ RSlice(archive, start, total)
                         = RNorm(<<Run(S, "data", g, 0), Zeros(pad)>>)
                    /\ S + pad = total
                    /\ \A a \in copied :
                          a.operand = g => start <= a.lo /\ a.hi <= start + total

\* a file of several chunks, the last of them partial, copied by two ranks
C3_Witness ==
    /\ Created
    /\ nranks = 2
    /\ \E g \in Entries :
          /\ flist[g].type = "FILE"
          /\ flist[g].size > chunk_size
          /\ flist[g].size % chunk_size # 0
          /\ flist[g].size % BlockSize # 0

\* C4: when create completes the archive is archive_size + 1024 bytes long,
\* archive_size being the sum of all slot sizes, and its last 1024 bytes
\* are zero, also when a longer file was at the archive path before.
C4_LengthAndTrailer ==
    Created =>
        /\ archive_size = SeqSum([g \in Entries |-> GSlot(g)])
        /\ RLen(archive) = archive_size + TrailerSize
        /\ RSlice(archive, archive_size, TrailerSize) = <<Zeros(TrailerSize)>>

\* create has completed over a file that was longer than the archive is
C4_Witness ==
    /\ Created
    /\ NEntries > 0
    /\ old_size > archive_size + TrailerSize

\* C5: create followed by extract materializes every archived regular file,
\* directory and symlink exactly once, with its type, size and payload, and
\* lists it once in the metadata of the ranks.
C5_ExtractRestoresEveryEntryOnce ==
    Extracted =>
        \A g \in Entries :
            Supported(flist[g].type) =>
                /\ disk[g].made = 1
                /\ disk[g].data = RNorm(<<Run(EntryDataSize(g), "data", g, 0)>>)
                /\ Cardinality({ <<r, i>> \in CRanks \X (1 .. MaxEntries) :
                                   i <= Len(xflist[r]) /\ xflist[r][i] = g }) = 1

\* an entry after one of an unsupported type has been extracted twice
C5_Witness ==
    /\ Extracted
    /\ have_index
    /\ \E g \in Entries : Supported(flist[g].type) /\ disk[g].made = 2

\* C6: ranks below E mod R get E / R + 1 entries and the others E / R; the
\* counts sum to E; the ranges start at 0, follow one another in rank order
\* and end at E, so every index of offsets[] that a rank uses is below E.
C6_PartitionCoversEntries ==
    (run = "extract" /\ \A r \in CRanks : pc[r] \notin {"x_readidx", "x_scan", "x_part", "crashed"}) =>
        LET q   == entries \div nranks
            rem == entries % nranks
        IN  /\ \A r \in CRanks : entry_count[r] = IF r < rem THEN q + 1 ELSE q
            /\ SeqSum([k \in 1 .. nranks |-> entry_count[k - 1]]) = entries
            /\ entry_start[0] = 0
            /\ \A r \in CRanks :
                  r + 1 \in CRanks => entry_start[r + 1] = entry_start[r] + entry_count[r]
            /\ entry_start[nranks - 1] + entry_count[nranks - 1] = entries
            /\ \A r \in CRanks :
                  \A count \in 0 .. (entry_count[r] - 1) :
                      entry_start[r] + count + 1 \in DOMAIN offsets

\* every rank has its range, some ranks with one entry more than others
C6_Witness ==
    /\ run = "extract"
    /\ \A r \in CRanks : pc[r] = "x_flist_open"
    /\ nranks >= 3
    /\ entries \div nranks >= 1
    /\ entries % nranks >= 1

\* C7: after create the index file holds total_items values of 8 bytes, and
\* the k-th value is the offset at which the header of the k-th entry
\* starts in the archive.
C7_IndexNamesHeaderStarts ==
    Created =>
        /\ idxfile.exists
        /\ Len(idxfile.data) = IdxWord * DTAR_total_items
        /\ \A k \in Entries :
              ReadHeaderAt(archive,
                           Unpack64(SubSeq(idxfile.data, IdxWord * (k - 1) + 1, IdxWord * k)),
                           FALSE)
              = [st |-> "OK", e |-> k]

\* the index names an offset for an entry that has no header
C7_Witness ==
    /\ Created
    /\ \E k \in Entries :
          /\ ~Supported(flist[k].type)
          /\ Len(idxfile.data) >= IdxWord * k
          /\ ReadHeaderAt(archive,
                          Unpack64(SubSeq(idxfile.data, IdxWord * (k - 1) + 1, IdxWord * k)),
                          FALSE).e # k

\* C8: read_entry_index after write_entry_index returns on every rank the
\* number of offsets written and the arrays written, in rank order.
C8_IndexRoundTrip ==
    (/\ run = "extract"
     /\ \A r \in CRanks : pc[r] # "x_readidx"
     /\ have_index) =>
        /\ \A r \in CRanks : pc[r] # "crashed"
        /\ entries = Len(idx_args)
        /\ offsets = idx_args

\* a rank other than rank 0 has not come back from read_entry_index
C8_Witness ==
    /\ run = "extract"
    /\ have_index
    /\ \E r \in CRanks : r # 0 /\ pc[r] = "crashed"

\* C9: when a header probe, a source open or an archive write fails during
\* create, the remaining work is still done and create returns failure.
C9_CreateReportsFailure ==
    (Created /\ fault.k \in {"probe_meta", "probe_nospace", "hwrite", "open"}) =>
        /\ queue = {}
        /\ \A r \in CRanks : create_rc[r] = MFU_FAILURE

\* create has returned success on every rank although a header was not written
C9_Witness ==
    /\ Created
    /\ fault.k = "hwrite"
    /\ queue = {}
    /\ \A r \in CRanks : create_rc[r] = MFU_SUCCESS

\* C10: when a rank got a non-success from the metadata phase or from the
\* extraction phase, extract returns failure on every rank.
C10_ExtractReportsFailure ==
    (/\ Extracted
     /\ \E r \in CRanks : flist_rc[r] = MFU_FAILURE \/ files_rc[r] = MFU_FAILURE) =>
        \A r \in CRanks : extract_rc[r] = MFU_FAILURE

\* extract has returned success on every rank although the extraction phase
\* of one rank returned failure
C10_Witness ==
    /\ Extracted
    /\ \E r \in CRanks : files_rc[r] = MFU_FAILURE
    /\ \A r \in CRanks : extract_rc[r] = MFU_SUCCESS

\* C11: when the probe of an entry's header fails during layout planning the
\* plan is aborted: write_entry_index is given no offsets and the index file
\* stays what it was, and the archive stays the file that was at its path
\* before: not truncated, no header and no payload written.
C11_ProbeFailureAbortsPlan ==
    (run = "create" /\ fault.k \in {"probe_meta", "probe_nospace"}) =>
        /\ idx_args = <<>>
        /\ idxfile \in { OldIndex(n) : n \in {0} \cup OldArchiveLens }
        /\ archive \in { OldArchive(n) : n \in OldArchiveLens }

\* create has returned after a failed probe: the offsets of the plan are in
\* the index file and the archive has the length of the plan
C11_Witness ==
    /\ Created
    /\ fault.k \in {"probe_meta", "probe_nospace"}
    /\ idx_args # <<>>
    /\ idxfile.data = PackAll(idx_args)
    /\ RLen(archive) = archive_size + TrailerSize

\* C12: once read_entry_index is over, if the index file is missing or its
\* size is no multiple of 8, every rank has returned from it and has got
\* failure ("no index").
C12_NoIndexSignalled ==
    (/\ run = "extract"
     /\ \A r \in CRanks : pc[r] # "x_readidx"
     /\ (~idxfile.exists \/ Len(idxfile.data) % IdxWord # 0)) =>
        /\ ~have_index
        /\ \A r \in CRanks : pc[r] # "crashed"

\* every rank has returned from read_entry_index with success and with
\* entries, although the size of the index file is no multiple of 8
C12_Witness ==
    /\ run = "extract"
    /\ \A r \in CRanks : pc[r] = "x_part"
    /\ idxfile.exists
    /\ Len(idxfile.data) % IdxWord # 0
    /\ have_index
    /\ entries > 0

\* C13: in extract a rank is about to scan the archive with index_entries
\* only if read_entry_index failed; once the offsets have been sought,
\* have_offsets is false exactly when the index load and the scan both
\* failed; a rank is in the offset-based metadata or extraction function
\* only when have_offsets is true and in the stride-based ones only when it
\* is false.
C13_FallbackOrder ==
    run = "extract" =>
        /\ \A r \in CRanks : pc[r] = "x_scan" => ~have_index
        /\ (\A r \in CRanks : pc[r] \notin {"x_readidx", "x_scan"}) =>
              (~have_offsets <=>
                  (~have_index /\ ScanFrom(archive, 0, FALSE, <<>>).rc = MFU_FAILURE))
        /\ \A r \in CRanks :
              /\ pc[r] \in {"x_flist_open", "x_flist_loop", "x_flist_all", "x_files"}
                    => have_offsets
              /\ pc[r] \in {"x_flist_stride", "x_files_stride", "exited", "looping"}
                    => ~have_offsets

\* no index and a scan that failed: a rank is about to extract by stride
C13_Witness ==
    /\ run = "extract"
    /\ ~have_index
    /\ ~have_offsets
    /\ NEntries > 0
    /\ \E r \in CRanks : pc[r] = "x_files_stride"

\* C14: when extract has no index and scans an archive that create made,
\* index_entries finds as many offsets as create gave to write_entry_index,
\* and the same offsets in the same order.
C14_ScanEqualsIndex ==
    (/\ run = "extract"
     /\ \A r \in CRanks : pc[r] \notin {"x_readidx", "x_scan"}
     /\ ~have_index
     /\ have_offsets) =>
        /\ entries = Len(idx_args)
        /\ offsets = idx_args

\* the scan has found fewer offsets than create wrote to the index
C14_Witness ==
    /\ run = "extract"
    /\ \A r \in CRanks : pc[r] = "x_part"
    /\ ~have_index
    /\ have_offsets
    /\ entries < Len(idx_args)

\* C15: once create or extract has begun no error ends the process: no rank
\* leaves the operation through exit() or MPI_Abort().
C15_NoExitAfterStart ==
    \A r \in CRanks : pc[r] # "exited"

\* a rank could not open the archive in extract_flist and has left through
\* exit(); another rank has built its list and waits for it
C15_Witness ==
    /\ run = "extract"
    /\ fault.k = "xopen"
    /\ ~have_offsets
    /\ \E r, q \in CRanks : pc[r] = "exited" /\ pc[q] = "x_mkdir"

\* C16: when create or extract has returned on every rank, no rank holds an
\* open descriptor of the archive or an archive reader object that it has
\* not freed.
C16_AllReleased ==
    (Created \/ Extracted) =>
        \A r \in CRanks : held[r].fds = 0 /\ held[r].readers = 0

\* extract with offsets has returned and every rank still holds the
\* descriptor it opened in extract_files_offsets
C16_Witness ==
    /\ Extracted
    /\ have_offsets
    /\ entries > 0
    /\ \A r \in CRanks : held[r].fds = 1 /\ files_rc[r] = MFU_SUCCESS

\* C17: the planned layout has no gap: the first entry of the list is at
\* offset 0; on every rank each entry starts where the one before it ends;
\* the first entry of a rank starts at the sum of the slot sizes of all
\* lower ranks, whether or not some of them hold no entry; the last entry
\* of the list ends at archive_size.
C17_LayoutHasNoGap ==
    Planned =>
        /\ NEntries > 0 => GOffset(1) = 0
        /\ \A r \in CRanks :
              /\ \A i \in 2 .. Len(DTAR_offsets[r]) :
                    DTAR_offsets[r][i] = DTAR_offsets[r][i - 1] + fsizes[r][i - 1]
              /\ Len(DTAR_offsets[r]) > 0 =>
                    DTAR_offsets[r][1] = SeqSum([q \in 1 .. r |-> SeqSum(fsizes[q - 1])])
        /\ NEntries > 0 => GOffset(NEntries) + GSlot(NEntries) = archive_size

\* two ranks, the lower one without an entry, the upper one with two
\* entries that take space
C17_Witness ==
    /\ Planned
    /\ nranks = 2
    /\ Len(DTAR_offsets[0]) = 0
    /\ Len(DTAR_offsets[1]) = 2
    /\ fsizes[1][1] > 0
    /\ fsizes[1][2] > 0

\* C18: after planning, the slot of a directory or symlink is its header
\* size, the slot of a regular file is its header size plus the least
\* multiple of 512 that is not below its size, and DTAR_total_bytes is the
\* sum of those multiples of 512 over the regular files of all ranks.
C18_SlotSizes ==
    Planned =>
        /\ \A g \in Entries :
              /\ flist[g].type \in {"DIR", "LINK"} =>
                    GHeader(g) = flist[g].hsize /\ GSlot(g) = GHeader(g)
              /\ flist[g].type = "FILE" =>
                    /\ GHeader(g) = flist[g].hsize
                    /\ GSlot(g) = GHeader(g)
                          + ((flist[g].size + BlockSize - 1) \div BlockSize) * BlockSize
        /\ DTAR_total_bytes =
              SeqSum([g \in Entries |->
                  IF flist[g].type = "FILE"
                  THEN ((flist[g].size + BlockSize - 1) \div BlockSize) * BlockSize
                  ELSE 0])

\* a regular file whose size is no multiple of 512 and a symlink, planned by
\* two different ranks
C18_Witness ==
    /\ Planned
    /\ \E g, h \in Entries :
          /\ owner[g] # owner[h]
          /\ flist[g].type = "FILE"
          /\ flist[g].size % BlockSize # 0
          /\ flist[h].type = "LINK"
    /\ DTAR_total_bytes > 0

\* C19: once DTAR_enqueue_copy has run on a rank, it has enqueued for every
\* regular file of size S of the rank's shard max(1, ceil(S / chunk_size))
\* work items, one for each chunk index from 0 up, and none for a directory,
\* a symlink or an entry of another type.
C19_WorkItemsPerFile ==
    run = "create" =>
        \A g \in Entries :
            pc[owner[g]] \in {"circle", "trailer", "end_bar", "created"} =>
                LET S     == flist[g].size
                    ceil  == (S + chunk_size - 1) \div chunk_size
                    count == IF ceil < 1 THEN 1 ELSE ceil
                    calls == { e \in enqueued : e.op.operand = g }
                IN  IF flist[g].type = "FILE"
                    THEN /\ Cardinality(calls) = count
                         /\ \A c \in 0 .. (count - 1) :
                               Cardinality({ e \in calls : e.op.chunk_index = c }) = 1
                         /\ \A e \in calls : e.rank = owner[g] /\ e.op.file_size = S
                    ELSE calls = {}

\* a rank has enqueued the work of an empty file, of a file of two chunks
\* and of nothing for a directory
C19_Witness ==
    /\ run = "create"
    /\ \A r \in CRanks : pc[r] = "circle"
    /\ \E g, h \in Entries :
          /\ flist[g].type = "FILE" /\ flist[g].size = 0
          /\ flist[h].type = "FILE" /\ flist[h].size > chunk_size
          /\ Cardinality({ e \in enqueued : e.op.operand = h }) = 2

\* C20: a work item {file_size, chunk_index, archive_data_offset} writes
\* payload bytes only from archive_data_offset + chunk_index * chunk_size up
\* to, and not including, archive_data_offset
\* + min((chunk_index + 1) * chunk_size, file_size), whatever the reads of
\* the source return.
C20_ItemWritesOwnRange ==
    run = "create" =>
        \A a \in copied :
            LET start == GOffset(a.operand) + GHeader(a.operand)
                first == start + a.chunk_index * chunk_size
                last  == start + Min((a.chunk_index + 1) * chunk_size,
                                     flist[a.operand].size)
            IN  /\ a.lo = first
                /\ a.data_hi > a.lo => a.data_hi <= last

\* after a short first read the first work item of a file of two chunks
\* has written payload beyond the end of the first chunk
C20_Witness ==
    /\ run = "create"
    /\ \E a \in copied :
          /\ a.chunk_index = 0
          /\ flist[a.operand].size > chunk_size
          /\ a.data_hi > a.lo + chunk_size

\* C21: when create completes, of the work items of a regular file of size
\* S > 0 exactly one took itself for the last chunk, the one with the
\* highest chunk index; the zero bytes it wrote start at the data offset of
\* the file plus S and number (512 - S mod 512) mod 512, which is the padded
\* size the planner reserved minus S; no other item of the file wrote zero
\* bytes, and for S = 0 none did.
C21_LastChunkPads ==
    Created =>
        \A g \in Entries :
            flist[g].type = "FILE" =>
                LET S      == flist[g].size
                    items  == { a \in copied : a.operand = g }
                    lasts  == { a \in items : a.last }
                    pad    == (BlockSize - (S % BlockSize)) % BlockSize
                    start  == GOffset(g) + GHeader(g)
                IN  /\ \A a \in items \ lasts : a.hi = a.data_hi
                    /\ S = 0 => \A a \in items : a.hi = a.data_hi
                    /\ S > 0 =>
                          /\ Cardinality(lasts) = 1
                          /\ \A a \in lasts :
                                /\ \A b \in items : b.chunk_index <= a.chunk_index
                                /\ a.data_hi = start + S
                                /\ a.hi - a.data_hi = pad
                                /\ pad = GSlot(g) - GHeader(g) - S

\* a file whose size is twice the chunk size and no multiple of 512, and an
\* empty file, have been copied
C21_Witness ==
    /\ Created
    /\ \E g, h \in Entries :
          /\ flist[g].type = "FILE"
          /\ flist[g].size = 2 * chunk_size
          /\ flist[g].size % BlockSize # 0
          /\ \E a \in copied : a.operand = g /\ a.chunk_index = 1 /\ a.hi > a.data_hi
          /\ flist[h].type = "FILE"
          /\ flist[h].size = 0

\* C22: whenever a work item of a regular file is processed, on whichever
\* rank, the complete header of that file is already in the archive at the
\* offset of the entry: the header write is over before the first payload
\* or padding byte of the entry is written.
C22_HeaderBeforePayload ==
    [][\A a \in copied' \ copied :
          RSlice(archive, GOffset(a.operand), flist[a.operand].hsize)
              = <<Run(flist[a.operand].hsize, "hdr", a.operand, 0)>>]_vars

\* a work item of a file owned by one rank has been processed while another
\* rank has not written its headers yet
C22_Witness ==
    /\ run = "create"
    /\ \E a \in copied : \E r \in CRanks :
          /\ r # owner[a.operand]
          /\ pc[r] = "headers"
          /\ Len(DTAR_offsets[r]) > 0

\* C23: while create runs, a header or payload byte is in the archive only
\* after rank 0 has left its truncation: the archive then has the length
\* archive_size + 1024 and nothing of the file that was at the archive path
\* before is left in it, so the truncation erased no byte of this create.
C23_NoWriteBeforeTruncation ==
    (run = "create" /\ \E i \in 1..Len(archive) : archive[i].k \in {"hdr", "data"})
        => /\ pc[0] \notin {"plan", "plan_reduce", "idx_scan", "idx_create",
                            "idx_bar", "idx_write", "idx_all", "trunc"}
           /\ RLen(archive) = archive_size + 2 * BlockSize
           /\ \A i \in 1..Len(archive) : archive[i].k # "old"

\* a rank other than rank 0 has written a header over a truncated old file
\* while rank 0 has written none yet
C23_Witness ==
    /\ run = "create"
    /\ old_size > 0
    /\ pc[0] = "headers"
    /\ Len(DTAR_offsets[0]) > 0
    /\ \E i \in 1..Len(archive) : archive[i].k = "hdr" /\ owner[archive[i].e] # 0

\* C24: in create, the step of rank 0 that leaves the trailer code writes
\* 1024 zero bytes at offset archive_size; no other step writes them, so
\* they are written once and by rank 0; and when they are written, every
\* rank has left the copy phase and every work item that was enqueued has
\* been processed.
C24_TrailerOnceAfterCopies ==
    [][run = "create" =>
         /\ (pc[0] = "trailer" /\ pc'[0] = "end_bar")
               => RSlice(archive', archive_size, TrailerSize) = <<Zeros(TrailerSize)>>
         /\ (/\ RSlice(archive', archive_size, TrailerSize) = <<Zeros(TrailerSize)>>
             /\ RSlice(archive, archive_size, TrailerSize) # <<Zeros(TrailerSize)>>)
               => /\ pc[0] = "trailer" /\ pc'[0] = "end_bar"
                  /\ queue = {}
                  /\ \A r \in CRanks : pc[r] \in {"trailer", "end_bar"}
                  /\ \A q \in enqueued : \E a \in copied :
                        /\ a.operand = q.op.operand
                        /\ a.chunk_index = q.op.chunk_index
         /\ \A r \in CRanks \ {0} :
               (pc[r] = "trailer" /\ pc'[r] = "end_bar") => archive' = archive]_vars

\* rank 0 has written the trailer after work items of two ranks were
\* processed, and another rank has not closed the archive yet
C24_Witness ==
    /\ run = "create"
    /\ pc[0] = "end_bar"
    /\ \E r \in CRanks \ {0} : pc[r] = "trailer"
    /\ \E q1, q2 \in enqueued : q1.rank # q2.rank
    /\ RSlice(archive, archive_size, TrailerSize) = <<Zeros(TrailerSize)>>

\* C25: the step in which a rank writes its headers puts, for each supported
\* entry of its shard, the header of that entry at the entry's offset in
\* exactly the number of bytes the planner recorded, and changes nothing
\* else: not the payload area of its own entries, not the slot of an entry
\* of another rank, not the trailer, not the length of the archive.  No
\* other step of create changes a header, so each is written once, by the
\* rank that holds the entry.
C25_HeadersFitTheirSlots ==
    [][run = "create" /\ run' = "create" =>
         /\ \A r \in CRanks : (pc[r] = "headers" /\ pc'[r] = "circle_create") =>
               /\ \A i \in 1..Len(Shard(r)) :
                     Supported(flist[Shard(r)[i]].type) =>
                        RSlice(archive', DTAR_offsets[r][i], DTAR_header_sizes[r][i])
                           = RNorm(<<Run(DTAR_header_sizes[r][i], "hdr", Shard(r)[i], 0)>>)
               /\ \A g \in Entries :
                     LET h  == IF owner[g] = r THEN GHeader(g) ELSE 0
                     IN  RSlice(archive', GOffset(g) + h, GSlot(g) - h)
                            = RSlice(archive, GOffset(g) + h, GSlot(g) - h)
               /\ RSlice(archive', archive_size, TrailerSize)
                     = RSlice(archive, archive_size, TrailerSize)
               /\ RLen(archive') = RLen(archive)
         /\ {archive'[i] : i \in {j \in 1..Len(archive') : archive'[j].k = "hdr"}}
               # {archive[i] : i \in {j \in 1..Len(archive) : archive[j].k = "hdr"}}
               => \E r \in CRanks : pc[r] = "headers" /\ pc'[r] = "circle_create"]_vars

\* a rank has written the headers of a regular file with payload and of a
\* directory of its shard
C25_Witness ==
    /\ run = "create"
    /\ \E r \in CRanks :
          /\ pc[r] = "circle_create"
          /\ \E i, j \in 1..Len(Shard(r)) :
                /\ flist[Shard(r)[i]].type = "FILE"
                /\ flist[Shard(r)[i]].size > 0
                /\ flist[Shard(r)[j]].type = "DIR"
                /\ RSlice(archive, DTAR_offsets[r][i], DTAR_header_sizes[r][i])
                      = <<Run(DTAR_header_sizes[r][i], "hdr", Shard(r)[i], 0)>>

\* C26: in extract, whenever a rank's extraction phase makes an item, the
\* directory of every directory entry of every rank's list has already been
\* created by mfu_flist_mkdir.
C26_DirectoriesBeforeExtraction ==
    [][(run = "extract" /\ run' = "extract" /\ disk' # disk) =>
          \A r \in CRanks : \A i \in 1 .. Len(xflist[r]) :
              flist[xflist[r][i]].type = "DIR" => xflist[r][i] \in mkdirs]_vars

\* one rank has extracted the directory of its list while another rank,
\* whose list holds a directory too, has not started to extract
C26_Witness ==
    /\ run = "extract"
    /\ \E r, q \in CRanks :
          /\ r # q
          /\ pc[r] = "x_bar1"
          /\ pc[q] \in {"x_files", "x_files_stride"}
          /\ \E i \in 1 .. Len(xflist[r]) :
                /\ flist[xflist[r][i]].type = "DIR"
                /\ disk[xflist[r][i]].made > 0
          /\ \E i \in 1 .. Len(xflist[q]) :
                /\ flist[xflist[q][i]].type = "DIR"
                /\ xflist[q][i] \in mkdirs

\* C27: in extract, as soon as one rank has closed its disk writer or has
\* gone on to the timestamps of its directories, no rank is still in its
\* extraction loop, or before it, and no step makes an item any more.
C27_CloseAfterAllExtracted ==
    [][(/\ run = "extract" /\ run' = "extract"
        /\ \E r \in CRanks :
              pc'[r] \in {"x_bar2", "x_dirs", "idx_scan", "idx_create", "idx_bar",
                          "idx_write", "idx_all", "x_end_bar", "extracted"})
          => /\ disk' = disk
             /\ \A q \in CRanks :
                   pc'[q] \in {"x_free", "x_bar2", "x_dirs", "idx_scan", "idx_create",
                               "idx_bar", "idx_write", "idx_all", "x_end_bar",
                               "extracted"}]_vars

\* without an index: one rank has closed its disk writer, another has not
\* yet, and both have made an item
C27_Witness ==
    /\ run = "extract"
    /\ ~have_offsets
    /\ \E r, q \in CRanks :
          /\ pc[r] = "x_bar2"
          /\ pc[q] = "x_free"
          /\ \E i \in 1 .. Len(xflist[r]) : disk[xflist[r][i]].made > 0
          /\ \E i \in 1 .. Len(xflist[q]) : disk[xflist[q][i]].made > 0

\* C28: in write_entry_index, the step in which rank k writes happens after
\* rank 0 has recreated the index file; it puts the count_k packed offsets
\* of rank k at byte 8 * (sum of the counts of the ranks below k) and leaves
\* every other byte of the file as it was; the ranges of two ranks are
\* disjoint, and when the last rank has written the file is exactly
\* 8 * (sum of all counts) bytes long.
C28_IndexRangesTileTheFile ==
    [][\A k \in CRanks : (pc[k] = "idx_write" /\ pc'[k] = "idx_all") =>
          LET lo == IdxWord * SeqSum([q \in 1 .. k |-> IdxCount(q - 1)])
              n  == IdxWord * IdxCount(k)
          IN  /\ pc[0] \notin {"idx_scan", "idx_create"}
              /\ idxfile.exists
              /\ IdxWord * idx_off[k] = lo
              /\ n > 0 => /\ Len(idxfile'.data) >= lo + n
                          /\ SubSeq(idxfile'.data, lo + 1, lo + n) = PackAll(IdxOffsets(k))
              /\ \A i \in 1 .. Len(idxfile.data) :
                    i \notin (lo + 1) .. (lo + n) => idxfile'.data[i] = idxfile.data[i]
              /\ \A q \in CRanks \ {k} :
                    Disjoint(lo, lo + n, IdxWord * idx_off[q],
                             IdxWord * (idx_off[q] + IdxCount(q)))
              /\ (\A q \in CRanks \ {k} : pc[q] = "idx_all") =>
                    Len(idxfile'.data)
                       = IdxWord * SeqSum([q \in 1 .. nranks |-> IdxCount(q - 1)])]_vars

\* two ranks with entries each: the higher rank has written its offsets
\* behind a gap that rank 0 has not filled yet
C28_Witness ==
    /\ run = "create"
    /\ nranks = 2
    /\ pc[0] = "idx_write"
    /\ pc[1] = "idx_all"
    /\ IdxCount(0) > 0
    /\ IdxCount(1) > 0
    /\ Len(idxfile.data) = IdxWord * (IdxCount(0) + IdxCount(1))

\* C29: when write_entry_index has returned, every rank holds the same
\* result, and the result is true (1) exactly when no rank's open and no
\* rank's pwrite of the index file failed; otherwise it is false (0).
C29_IndexResultAgreesAndIsExact ==
    (run = "create" /\ \A r \in CRanks : pc[r] \in {"trunc", "trunc_bar"}) =>
        \A r \in CRanks :
            /\ idx_result[r] = idx_result[0]
            /\ idx_result[r] \in {0, 1}
            /\ idx_result[r] = 1 <=>
                  ~(fault.k \in {"idxopen", "idxwrite"} /\ fault.g \in CRanks)

\* the pwrite of the higher of two ranks failed after rank 0 had written its
\* offsets; write_entry_index has returned false on rank 0 too
C29_Witness ==
    /\ run = "create"
    /\ nranks = 2
    /\ fault = [k |-> "idxwrite", g |-> 1]
    /\ pc[0] = "trunc"
    /\ IdxCount(0) > 0
    /\ IdxCount(1) > 0
    /\ Len(idxfile.data) = IdxWord * IdxCount(0)
    /\ idx_result[0] = 0

\* C30: the step in which the ranks return from read_entry_index leaves all
\* of them with the same status, each going on as rank 0 does; on success
\* the count and the offsets every rank holds are those of the index file,
\* unpacked; on failure count and offsets are what they were before.
C30_ReadIndexAgrees ==
    [][((\A r \in CRanks : pc[r] = "x_readidx") /\ pc' # pc) =>
          /\ \A r \in CRanks : pc'[r] = pc'[0]
          /\ have_index' =>
                /\ entries' = Len(idxfile.data) \div IdxWord
                /\ offsets' = UnpackAll(idxfile.data, entries')
          /\ ~have_index' => UNCHANGED <<entries, offsets>>]_vars

\* there is no index file: rank 0 has returned failure from
\* read_entry_index, another rank has not returned
C30_Witness ==
    /\ run = "extract"
    /\ ~have_index
    /\ pc[0] = "x_scan"
    /\ \E r \in CRanks : r # 0 /\ pc[r] = "crashed"

\* C31: in extract the index file changes only when the offsets came from a
\* scan (have_offsets and not have_index), and write_entry_index is entered
\* after the directory timestamps exactly then; the arrays the ranks pass
\* to it are their entry ranges, one after the other the scanned array, and
\* when it returns the index file is that array, packed, in entry order.
C31_ScannedOffsetsBecomeIndex ==
    [][(run = "extract" /\ run' = "extract") =>
          /\ idxfile' # idxfile => (have_offsets /\ ~have_index)
          /\ ((\A r \in CRanks : pc[r] = "x_dirs") /\ pc' # pc) =>
                \A r \in CRanks :
                    pc'[r] = "idx_scan" <=> (have_offsets /\ ~have_index)
          /\ ((\A r \in CRanks : pc[r] = "idx_all") /\ pc' # pc) =>
                LET scanned == ScanFrom(archive, 0, FALSE, <<>>).offsets
                IN  /\ idx_args = scanned
                    /\ idxfile.exists
                    /\ idxfile.data = PackAll(scanned)]_vars

\* two ranks have extracted an archive of two or more entries that had no
\* index, and have returned with the index written
C31_Witness ==
    /\ Extracted
    /\ nranks = 2
    /\ have_offsets
    /\ ~have_index
    /\ entries >= 2
    /\ idxfile.data = PackAll(offsets)

\* C32: without offsets, the reader of every rank meets every header of the
\* archive, one for each supported entry of the list that was archived; the
\* step of extract_flist puts into the list of rank r exactly the entries
\* whose sequence number k (from 0) has k mod R = r, and the step of
\* extract_files of rank r makes exactly those entries, each once.
C32_StrideCoversEveryEntryOnce ==
    [][(run = "extract" /\ run' = "extract" /\ ~have_offsets) =>
          \A r \in CRanks :
             LET n    == Len(StrideScan.offsets)
                 mine == { k \in 1 .. n : (k - 1) % nranks = r }
             IN  /\ (pc[r] = "x_flist_stride" /\ pc'[r] = "x_mkdir") =>
                       /\ n = Cardinality({g \in 1 .. Len(flist) : Supported(flist[g].type)})
                       /\ Len(xflist'[r]) = Cardinality(mine)
                       /\ \A k \in 1 .. n :
                             (\E i \in 1 .. Len(xflist'[r]) : xflist'[r][i] = StrideEntry(k))
                                <=> k \in mine
                 /\ (pc[r] = "x_files_stride" /\ pc'[r] # "x_files_stride") =>
                       /\ pc'[r] = "x_bar1"
                       /\ \A k \in 1 .. n :
                             disk'[StrideEntry(k)].made
                                = disk[StrideEntry(k)].made + (IF k \in mine THEN 1 ELSE 0)]_vars

\* two ranks have gone through a compressed archive of two or more
\* entries, and each entry has been made once
C32_Witness ==
    /\ run = "extract"
    /\ ~have_offsets
    /\ nranks = 2
    /\ \A r \in CRanks : pc[r] = "x_bar1"
    /\ Len(StrideScan.offsets) >= 2
    /\ \A k \in 1 .. Len(StrideScan.offsets) : disk[StrideEntry(k)].made = 1
    /\ \A r \in CRanks : Len(xflist[r]) > 0

\* C33: in create, no step taken after the planning is over on every rank
\* changes DTAR_offsets or DTAR_header_sizes; in extract, no step taken
\* after the offsets were loaded or scanned changes the offsets array or
\* the number of entries.
C33_OffsetArraysAreFrozen ==
    [][/\ (/\ run = "create" /\ run' = "create"
           /\ \A r \in CRanks : pc[r] \notin {"plan", "plan_reduce"})
             => UNCHANGED <<DTAR_offsets, DTAR_header_sizes>>
       /\ (/\ run = "extract" /\ run' = "extract"
           /\ \A r \in CRanks : pc[r] \notin {"x_readidx", "x_scan"})
             => UNCHANGED <<offsets, entries>>]_vars

\* two ranks have scanned, extracted and written the index, the second
\* one's range starting behind the first entry
C33_Witness ==
    /\ Extracted
    /\ nranks = 2
    /\ have_offsets
    /\ ~have_index
    /\ entry_count[1] > 0
    /\ offsets[entry_start[1] + 1] > 0
    /\ idxfile.exists

\* C34: a work item whose message fits the message size comes back from
\* DTAR_decode_operation(DTAR_encode_operation(..)) with the same file_size,
\* chunk_index, offset, code and operand, also when the operand holds ':'
\* characters or digits; decoding does not abort.
C34_WorkItemRoundTrip ==
    (opstr.st = "ok" /\ op_out.st # "none") => op_out = op_in

\* a work item whose name starts with ':' and holds another one has come
\* back from the codec
C34_Witness ==
    /\ op_out.st = "ok"
    /\ op_in.file_size = 1030
    /\ op_in.chunk_index = 2
    /\ Len(op_in.operand) = 3
    /\ op_in.operand[1] = ":"
    /\ op_in.operand[3] = ":"

\* C35: when create has returned, an entry that is neither a regular file,
\* a directory nor a symlink has header size 0 and slot size 0, adds
\* nothing to archive_size, has no header in the archive and no work item;
\* it is counted in DTAR_total_items and has a value in the index, and that
\* value is the offset at which the header of the next entry starts.
C35_UnsupportedEntryTakesNoSpace ==
    Created =>
        /\ DTAR_total_items = NEntries
        /\ Len(idx_args) = NEntries
        /\ archive_size
              = SeqSum([g \in Entries |->
                    IF Supported(flist[g].type) THEN GSlot(g) ELSE 0])
        /\ \A g \in Entries : ~Supported(flist[g].type) =>
              /\ GHeader(g) = 0
              /\ GSlot(g) = 0
              /\ \A i \in 1 .. Len(archive) : ~(archive[i].k = "hdr" /\ archive[i].e = g)
              /\ \A q \in enqueued : q.op.operand # g
              /\ idx_args[g] = GOffset(g)
              /\ g + 1 \in Entries
              /\ RSlice(archive, idx_args[g], flist[g + 1].hsize)
                    = <<Run(flist[g + 1].hsize, "hdr", g + 1, 0)>>

\* create has returned for a list whose last entry is of another type: its
\* index value is archive_size, where the trailer starts
C35_Witness ==
    /\ Created
    /\ NEntries = 2
    /\ Supported(flist[1].type)
    /\ ~Supported(flist[2].type)
    /\ idx_args[2] = archive_size
    /\ ReadsZero(RSlice(archive, idx_args[2], BlockSize))

C37_OffsetPathNeverDeadlocks ==
    run = "extract" =>
        /\ \A r, q \in CRanks :
              ( \/ pc[r] \in {"x_readidx", "x_scan"}
                \/ /\ have_offsets
                   /\ pc[r] \in {"x_part", "x_flist_open", "x_flist_loop", "x_flist_all",
                                 "x_files", "x_bar1", "x_free", "x_bar2"} )
              => pc[q] \notin {"crashed", "exited", "extracted"}
        /\ \A r, q \in CRanks :
              ( /\ have_offsets
                /\ flist_rc[r] # "none" /\ pc[r] \notin {"x_flist_loop", "x_flist_all"}
                /\ flist_rc[q] # "none" /\ pc[q] \notin {"x_flist_loop", "x_flist_all"} )
              => flist_rc[r] = flist_rc[q]

\* the archive cannot be opened on one rank, which sits in the first
\* mfu_alltrue of extract_flist_offsets, while the other rank never left
\* read_entry_index
C37_Witness ==
    /\ run = "extract"
    /\ nranks = 2
    /\ have_offsets
    /\ Struck("xopen", 0)
    /\ pc[0] = "x_flist_open"
    /\ pc[1] = "crashed"

\* C38: when every rank has left its extraction loop, an entry has been
\* written to disk once for every assigned position that names it and was
\* reached without a failure.  With offsets, a position of rank r is reached
\* without a failure only if rank r opened the archive and no position of
\* its range up to this one failed: after its first failure a rank writes
\* nothing more, whatever the other ranks do.  In the stride loop a position
\* is written unless it is itself the one that failed.
C38_FailureStopsOffsetsNotStride ==
    (run = "extract" /\ \A r \in CRanks : pc[r] \in {"x_bar1", "x_free", "x_bar2"}) =>
        LET Fails(r, idx) ==
                \/ ReadHeaderAt(archive, offsets[idx + 1], FALSE).st # "OK"
                \/ Struck("xfiles", r) /\ idx = entry_start[r]
            Reached(r, idx) ==
                /\ ~Struck("xopen", r)
                /\ \A j \in entry_start[r] .. idx : ~Fails(r, j)
            ByOffsets(e) ==
                { <<r, idx>> \in CRanks \X (0 .. (entries - 1)) :
                    /\ idx \in entry_start[r] .. (entry_start[r] + entry_count[r] - 1)
                    /\ Reached(r, idx)
                    /\ ReadHeaderAt(archive, offsets[idx + 1], FALSE).e = e }
            ByStride(e) ==
                { k \in 1 .. Len(StrideScan.offsets) :
                    /\ StrideEntry(k) = e
                    /\ ~(k <= nranks /\ Struck("xfiles", k - 1)) }
        IN  \A e \in 1 .. Len(flist) :
               disk[e].made = IF have_offsets THEN Cardinality(ByOffsets(e))
                              ELSE Cardinality(ByStride(e))

\* with offsets, one rank has two entries and fails on the first: it has
\* left its loop with neither of them on disk
C38_Witness ==
    /\ run = "extract"
    /\ have_offsets
    /\ nranks = 1
    /\ entries = 2
    /\ Struck("xfiles", 0)
    /\ pc[0] = "x_bar1"
    /\ files_rc[0] = MFU_FAILURE
    /\ ReadHeaderAt(archive, offsets[2], FALSE).st = "OK"
    /\ \A e \in 1 .. Len(flist) : disk[e].made = 0

\* C39: when every rank is through mfu_param_path_check_archive, every rank
\* holds rank 0's own verdict, either all have exited or all have returned,
\* and every rank that has returned has opts->dest_path set to the
\* destination path.
C39_RanksAgreeOnVerdict ==
    (\A r \in CRanks : pc[r] \in {"checked", "exited"}) =>
        /\ \A r \in CRanks : valid[r] = valid[0]
        /\ valid[0] = IF /\ \E i \in DOMAIN access.src[0] : access.src[0][i]
                         /\ destparam.path_stat_valid \/ access.parent[0]
                      THEN 1 ELSE 0
        /\ \/ valid[0] = 0 /\ \A r \in CRanks : pc[r] = "exited"
           \/ valid[0] = 1 /\ \A r \in CRanks : pc[r] = "checked"
        /\ \A r \in CRanks : pc[r] = "checked" => dest_path[r] = destparam.path

\* rank 0 could read a source and rank 1 could read none: both have
\* returned, rank 1 without a destination path
C39_Witness ==
    /\ nranks = 2
    /\ pc[0] = "checked"
    /\ pc[1] = "checked"
    /\ valid[1] = 1
    /\ \A i \in DOMAIN access.src[1] : ~access.src[1][i]
    /\ dest_path[0] = destparam.path
    /\ dest_path[1] = "NULL"

\* C40: during create the sum over the ranks of reduce_bytes is at most
\* DTAR_total_bytes, and when a create without a failing call has returned
\* the sum is the total size, without padding, of the regular files.
C40_ReduceBytesWithinTotal ==
    run = "create" =>
        /\ reduce_bytes <= DTAR_total_bytes
        /\ (Created /\ fault = NoFault) =>
              reduce_bytes
                 = SeqSum([g \in 1 .. Len(flist) |->
                       IF flist[g].type = "FILE" THEN flist[g].size ELSE 0])

\* create has returned for one file of 1030 bytes copied in chunks of 600:
\* the first read of the first chunk was short, and 1130 bytes were counted
C40_Witness ==
    /\ Created
    /\ fault = NoFault
    /\ chunk_size = 600
    /\ Len(flist) = 1
    /\ flist[1].type = "FILE"
    /\ flist[1].size = 1030
    /\ Cardinality(copied) = 2
    /\ reduce_bytes = 1130
    /\ reduce_bytes <= DTAR_total_bytes

=============================================================================
